---- MODULE Spec2Model ----
(***************************************************************************)
(* Model of the change-detection and session-state core of the two         *)
(* annotators of this repository:                                          *)
(*   src/script_1.py  ProfessionalYOLOAnnotator  (camera producer loop)    *)
(*   src/server.py    WebRTCYOLOAnnotator        (process_frame requests)  *)
(*                                                                         *)
(* Conventions.                                                            *)
(*  - script_1 state keeps the source's names; server.py state carries the *)
(*    prefix srv_ (both classes use the same attribute names).             *)
(*  - An OrderedDict is a sequence of entries in insertion order; storing  *)
(*    under an existing key replaces the entry in place (DictSet).         *)
(*  - prev_objects is [set |-> FALSE, ...] for Python's None.              *)
(*  - Confidences are integer percents (0.5 is 50); iou_threshold is in    *)
(*    hundredths (0.3 is 30); an IoU is the pair <<intersection, union>>.  *)
(*  - A frame image is identified by the frame counter of its capture.     *)
(*  - Not modelled: fps, start_time, hourly_stats, object_counts,          *)
(*    detection_history, timestamps, class_id and the derived width,       *)
(*    height and center fields of a detection.                             *)
(***************************************************************************)
EXTENDS Integers, Sequences, FiniteSets, TLC

\* ------------------------------------------------------------------ bounds
\* Frames the camera delivers in Spec.
MaxFrames == 3
\* Frames the camera delivers in SpecStream (more than the queue holds).
MaxFramesStream == 32
\* Frames the camera delivers in SpecLong (enough for an autosave).
MaxFramesLong == 11
\* Frames the camera delivers in SpecHistory (one more than the history holds).
MaxFramesHistory == 101
\* process_frame requests the server receives in SpecSrv.
MaxRequests == 2
\* reset_stats requests the server receives in SpecSrv.
MaxResets == 1
\* Largest coordinate of a box handed to calculate_iou in SpecIou.
MaxCoord == 3
\* Consecutive reads of the capture that fail.
MaxFailedReads == 3
\* process_frame requests before the server is shut down
MaxRequestsLive == 1

\* --------------------------------------------------------- program constants
\* queue.Queue(maxsize=30)
maxsize == 30
\* conf > 0.5 in run
conf_cut == 50
\* if saved_frame_count % 10 == 0
autosave_every == 10
\* if len(self.stats['detection_history']) > 100
history_cap == 100

\* ------------------------------------------------------------ detector output
Det(l, b, c) == [label |-> l, box |-> b, conf |-> c]

BoxA == <<0, 0, 10, 10>>
BoxB == <<60, 60, 70, 70>>
BoxC == <<6, 6, 16, 16>>
\* a box of zero width (x1 == x2 after int())
BoxZ == <<20, 20, 20, 30>>

\* What the detector may return for one frame: a list of raw boxes.
Scenes ==
  { <<>>,
    <<Det("person", BoxA, 90)>>,
    <<Det("person", BoxB, 90)>>,
    <<Det("person", BoxC, 90)>>,
    <<Det("car", BoxA, 90)>>,
    <<Det("person", BoxA, 40)>>,
    <<Det("person", BoxZ, 90)>>,
    <<Det("person", BoxA, 90), Det("car", BoxB, 90)>> }

\* An empty room: the detector never reports a box.
EmptyScenes == { <<>> }

\* A still scene: the same person in every frame.
StillScenes == { <<Det("person", BoxA, 90)>> }

\* ------------------------------------------------------------------- helpers
\* A field of the JSON body of /api/update_settings: absent, a number, or a
\* value float() and int() raise on (a word, null, a list).
Absent == [kind |-> "absent", val |-> 0]
Num(v) == [kind |-> "number", val |-> v]
Word == [kind |-> "word", val |-> 0]

\* Bodies a client may post: thresholds in range, out of range, of a wrong type.
IouInputs == {Absent, Num(50), Num(150), Word}
MotionInputs == {Absent, Num(20), Num(-5), Word}
ConfidenceInputs == {Absent, Num(95)}

\* No update_settings request has been answered yet.
NoRequest ==
  [iou |-> Absent, motion |-> Absent, confidence |-> Absent, reply |-> "none"]

Max(a, b) == IF a > b THEN a ELSE b
Min(a, b) == IF a < b THEN a ELSE b

None == [set |-> FALSE, objs |-> <<>>]
Some(objs) == [set |-> TRUE, objs |-> objs]

RECURSIVE SumObjects(_)
SumObjects(frames) ==
  IF frames = <<>> THEN 0
  ELSE Len(Head(frames).objects) + SumObjects(Tail(frames))

\* d[k] = v on an OrderedDict
DictSet(d, k, v) ==
  IF \E i \in 1..Len(d) : d[i].key = k
  THEN [i \in 1..Len(d) |-> IF d[i].key = k THEN v ELSE d[i]]
  ELSE Append(d, v)

\* current_objects as built by run: id label_i_framecount, i the raw index
Ingest(boxes, fc, cut) ==
  LET obj(i) == [id |-> <<boxes[i].label, i - 1, fc>>,
                 label |-> boxes[i].label,
                 x1 |-> boxes[i].box[1], y1 |-> boxes[i].box[2],
                 x2 |-> boxes[i].box[3], y2 |-> boxes[i].box[4],
                 confidence |-> boxes[i].conf]
  IN SelectSeq([i \in 1..Len(boxes) |-> obj(i)], LAMBDA o : o.confidence > cut)

\* An IoU that divides without testing the union.
calculate_iou_unguarded(box1, box2) ==
  LET x_left == Max(box1[1], box2[1])
      y_top == Max(box1[2], box2[2])
      x_right == Min(box1[3], box2[3])
      y_bottom == Min(box1[4], box2[4])
      intersection_area == (x_right - x_left) * (y_bottom - y_top)
      box1_area == (box1[3] - box1[1]) * (box1[4] - box1[2])
      box2_area == (box2[3] - box2[1]) * (box2[4] - box2[2])
      union_area == box1_area + box2_area - intersection_area
  IN IF x_right < x_left \/ y_bottom < y_top THEN <<0, 1>>
     ELSE <<intersection_area, union_area>>

\* An IoU that relates the intersection to the first box only.
calculate_iou_over_box1(box1, box2) ==
  LET x_left == Max(box1[1], box2[1])
      y_top == Max(box1[2], box2[2])
      x_right == Min(box1[3], box2[3])
      y_bottom == Min(box1[4], box2[4])
      intersection_area == (x_right - x_left) * (y_bottom - y_top)
      box1_area == (box1[3] - box1[1]) * (box1[4] - box1[2])
  IN IF x_right < x_left \/ y_bottom < y_top THEN <<0, 1>>
     ELSE IF box1_area > 0 THEN <<intersection_area, box1_area>>
     ELSE <<0, 1>>

\* calculate_iou of both programs (the same code); the quotient is kept as
\* <<numerator, denominator>>, and 0.0 and 0 as <<0, 1>>.
calculate_iou(box1, box2) ==
  LET x_left == Max(box1[1], box2[1])
      y_top == Max(box1[2], box2[2])
      x_right == Min(box1[3], box2[3])
      y_bottom == Min(box1[4], box2[4])
      intersection_area == (x_right - x_left) * (y_bottom - y_top)
      box1_area == (box1[3] - box1[1]) * (box1[4] - box1[2])
      box2_area == (box2[3] - box2[1]) * (box2[4] - box2[2])
      union_area == box1_area + box2_area - intersection_area
  IN IF x_right < x_left \/ y_bottom < y_top THEN <<0, 1>>
     ELSE IF union_area > 0 THEN <<intersection_area, union_area>>
     ELSE <<0, 1>>

BoxOf(o) == <<o.x1, o.y1, o.x2, o.y2>>
Labels(objs) == {objs[i].label : i \in 1..Len(objs)}

\* iou < iou_th, iou = <<n, d>>, iou_th in hundredths
IouBelow(iou, iou_th) == iou[1] * 100 < iou_th * iou[2]

\* np.sqrt(dx**2 + dy**2) > pos_th, on integer centers
CenterMoved(c, p, pos_th) ==
  LET dx == ((c.x1 + c.x2) \div 2) - ((p.x1 + p.x2) \div 2)
      dy == ((c.y1 + c.y2) \div 2) - ((p.y1 + p.y2) \div 2)
  IN IF pos_th < 0 THEN TRUE ELSE dx * dx + dy * dy > pos_th * pos_th

\* The position loop of has_significant_changes: ids present in both sets.
PositionChanged(cur, prev, iou_th, pos_th) ==
  \E i \in 1..Len(cur) : \E j \in 1..Len(prev) :
     /\ prev[j].id = cur[i].id
     /\ \/ IouBelow(calculate_iou(BoxOf(cur[i]), BoxOf(prev[j])), iou_th)
        \/ CenterMoved(cur[i], prev[j], pos_th)

\* (mutant of has_significant_changes: the label sets are not compared)
has_significant_changes_labels_unchecked(cur, prev, paused, iou_th, pos_th) ==
  IF paused THEN FALSE
  ELSE IF ~prev.set THEN TRUE
  ELSE IF Len(cur) # Len(prev.objs) THEN TRUE
  ELSE PositionChanged(cur, prev.objs, iou_th, pos_th)

has_significant_changes(cur, prev, paused, iou_th, pos_th) ==
  IF paused THEN FALSE
  ELSE IF ~prev.set THEN TRUE
  ELSE IF Len(cur) # Len(prev.objs) THEN TRUE
  ELSE IF Labels(cur) # Labels(prev.objs) THEN TRUE
  ELSE PositionChanged(cur, prev.objs, iou_th, pos_th)

\* ------------------------------------------------------------- script_1 state
VARIABLES
  annotations,          \* self.annotations
  prev_objects,         \* self.prev_objects
  stats,                \* self.stats: total_frames, saved_frames, total_objects
  running,              \* self.running
  pause_annotation,     \* self.pause_annotation
  iou_threshold,        \* self.iou_threshold (hundredths)
  position_threshold,   \* self.position_threshold
  current_camera_index, \* self.current_camera_index
  failed_reads,         \* ghost: reads of self.cap that returned ret False
                        \* since the last frame was read
  cap_opened,           \* self.cap.isOpened()
  new_source,           \* ghost: "switched" once switch_camera has returned
                        \* True and until a frame is read, "frame" while the
                        \* first frame read after that is processed, else "no"
  frame_queue,          \* self.frame_queue
  latest_frame,         \* self.latest_frame (0 is None)
  frame_lock,           \* self.frame_lock: "free" or the function holding it
  pc,                   \* position of the main thread in run
  frame_count,          \* run's local frame_count
  saved_frame_count,    \* run's local saved_frame_count
  current_objects,      \* run's local current_objects
  should_save,          \* run's local should_save
  saw_pause,            \* ghost: this iteration has read pause_annotation as True
  handler,              \* signal_handler: "none", "cleanup", "exited"
  final_save_calls,     \* calls of _save_to_json(final=True) so far
  autosave_file,        \* autosave_<output_file>: <<>> or <<document>>
  output_file,          \* <output_file>: <<>> or <<document>>
  frame_data,           \* generate's local frame_data, per /video viewer
  video_feed,           \* per viewer: no request yet, generate() in its
                        \* loop, or generate() ended
  sw_pc,                \* api_switch_camera request: "idle", "opened"
  ex_pc,                \* download_annotations / save_session request
  ex_doc,               \* the document that request is building
  snap_pc,              \* take_snapshot request: "idle", "imwrite",
                        \* "annotated", "return"
  screenshots,          \* files in screenshots_dir: <<kind, frame>> pairs
  settings_req,         \* the last /api/update_settings request and its answer
  \* ---- server.py (WebRTCYOLOAnnotator)
  srv_annotations,      \* self.annotations
  srv_prev_objects,     \* self.prev_objects
  srv_stats,            \* self.stats: total_frames, saved_frames, total_objects,
                        \* object_counts, detection_history
  srv_latest_frame,     \* self.latest_frame: 0 for None, else the number of the
                        \* posted frame it is a copy of
  srv_reply,            \* per request thread: 'success' of its last response
  srv_stats_id,         \* identity of the dict self.stats refers to
  srv_running,          \* self.running
  srv_pause_annotation, \* self.pause_annotation
  srv_iou_threshold,    \* self.iou_threshold (hundredths)
  srv_position_threshold, \* self.position_threshold
  srv_settings,         \* self.settings: confidence (percent)
  srv_settings_req,     \* the last /api/update_settings request and its answer
  srv_requests,         \* process_frame requests received so far
  srv_pc,               \* position of each request thread in process_frame
  srv_tmp,              \* per thread: the dict and value read by a "+= 1"
                        \* (<<0, 0>> outside the read-store window)
  srv_cur,              \* per thread: current_objects
  srv_fa,               \* per thread: frame_annotation
  srv_main,             \* main thread: "run", "handler", "finally", "done"
  srv_save,             \* _save_to_json in the main thread: step and document
  srv_final_save_calls, \* calls of _save_to_json(final=True) so far
  srv_autosave_file,    \* autosave_annotations.json: <<>> or <<document>>
  srv_output_file,      \* annotations.json: <<>> or <<document>>
  \* ---- both programs
  iou_call,             \* a call of calculate_iou: box1, box2 and, once it
                        \* has returned, <<result>>
  pause_calls,          \* script_1, per caller of /api/toggle_pause: where the
                        \* request is, the value it stores, the value it reports
  toggles_odd,          \* ghost: script_1's pause flag has been toggled an odd
                        \* number of times
  save_reply            \* script_1, the last /api/save_session request: "none"
                        \* while it runs, then "ok" (200) or "error" (500)

sessVars == <<annotations, prev_objects, stats>>
ctlVars == <<running, pause_annotation, iou_threshold, position_threshold>>
camVars == <<current_camera_index, cap_opened, new_source, failed_reads>>
streamVars == <<frame_queue, latest_frame, frame_lock>>
localVars == <<frame_count, saved_frame_count, current_objects, should_save,
              saw_pause>>
fileVars == <<autosave_file, output_file, final_save_calls>>
snapVars == <<snap_pc, screenshots>>
reqVars == <<frame_data, video_feed, sw_pc, ex_pc, ex_doc, snapVars,
             settings_req>>

s1Vars == <<sessVars, ctlVars, camVars, streamVars, pc, localVars, handler,
           fileVars, reqVars>>

srvSess == <<srv_annotations, srv_prev_objects, srv_stats, srv_stats_id,
             srv_latest_frame>>
srvCtl == <<srv_running, srv_pause_annotation, srv_iou_threshold,
            srv_position_threshold, srv_settings, srv_settings_req>>
srvThreads == <<srv_requests, srv_pc, srv_tmp, srv_cur, srv_fa, srv_reply>>
srvMain == <<srv_main, srv_save, srv_final_save_calls>>
srvFiles == <<srv_autosave_file, srv_output_file>>
srvVars == <<srvSess, srvCtl, srvThreads, srvMain, srvFiles>>

auxVars == <<iou_call, pause_calls, toggles_odd, save_reply>>

vars == <<s1Vars, srvVars, auxVars>>

\* Labels the detector reports.
DetectorLabels == {"person", "car"}

\* self.stats of server.py as __init__ and reset_stats build it; a label that
\* is no key of object_counts counts 0.
SrvFreshStats ==
  [total_frames |-> 0, saved_frames |-> 0, total_objects |-> 0,
   object_counts |-> [l \in DetectorLabels |-> 0], detection_history |-> <<>>]

\* Flask request threads serving /api/process_frame (threaded=True)
Threads == {"t1", "t2"}

available_cameras == <<0, 1>>
Viewers == {"v1", "v2"}
\* Clients that post /api/toggle_pause
Callers == {"c1", "c2"}
\* No toggle_pause request of the caller is under way or answered.
NoToggle == [pc |-> "idle", val |-> FALSE, reply |-> FALSE]

ProgramInit ==
  /\ save_reply = "none"
  /\ pause_calls = [c \in Callers |-> NoToggle]
  /\ toggles_odd = FALSE
  /\ annotations = <<>>
  /\ prev_objects = None
  /\ stats = [total_frames |-> 0, saved_frames |-> 0, total_objects |-> 0,
              detection_history |-> <<>>]
  /\ running = TRUE
  /\ pause_annotation = FALSE
  /\ iou_threshold = 30
  /\ position_threshold = 50
  /\ current_camera_index = 0
  /\ failed_reads = 0
  /\ cap_opened = TRUE
  /\ new_source = "no"
  /\ frame_queue = <<>>
  /\ latest_frame = 0
  /\ frame_lock = "free"
  /\ pc = "loop"
  /\ frame_count = 0
  /\ saved_frame_count = 0
  /\ current_objects = <<>>
  /\ should_save = FALSE
  /\ saw_pause = FALSE
  /\ handler = "none"
  /\ final_save_calls = 0
  /\ autosave_file = <<>>
  /\ output_file = <<>>
  /\ frame_data = [v \in Viewers |-> 0]
  /\ video_feed = [v \in Viewers |-> "none"]
  /\ sw_pc = "idle"
  /\ ex_pc = "idle"
  /\ ex_doc = <<>>
  /\ snap_pc = "idle"
  /\ screenshots = {}
  /\ settings_req = NoRequest
  /\ srv_annotations = <<>>
  /\ srv_prev_objects = None
  /\ srv_stats = SrvFreshStats
  /\ srv_latest_frame = 0
  /\ srv_reply = [t \in Threads |-> "none"]
  /\ srv_stats_id = 0
  /\ srv_running = TRUE
  /\ srv_pause_annotation = FALSE
  /\ srv_iou_threshold = 30
  /\ srv_position_threshold = 50
  /\ srv_settings = [confidence |-> conf_cut]
  /\ srv_settings_req = NoRequest
  /\ srv_requests = 0
  /\ srv_pc = [t \in Threads |-> "idle"]
  /\ srv_tmp = [t \in Threads |-> <<0, 0>>]
  /\ srv_cur = [t \in Threads |-> <<>>]
  /\ srv_fa = [t \in Threads |-> <<>>]
  /\ srv_main = "run"
  /\ srv_save = [step |-> "begin", doc |-> <<>>]
  /\ srv_final_save_calls = 0
  /\ srv_autosave_file = <<>>
  /\ srv_output_file = <<>>

\* No call of calculate_iou is being looked at.
NoCall == [box1 |-> <<0, 0, 0, 0>>, box2 |-> <<0, 0, 0, 0>>, result |-> <<>>]

Init == ProgramInit /\ iou_call = NoCall


\* ------------------------------------------- both programs: recent detections
\* The detections of a list of frames, frame after frame, each with the
\* frame it belongs to (the frame's timestamp in the code).
RECURSIVE Detections(_)
Detections(frames) ==
  IF frames = <<>> THEN <<>>
  ELSE [i \in 1..Len(Head(frames).objects) |->
          [label |-> Head(frames).objects[i].label,
           confidence |-> Head(frames).objects[i].confidence,
           frame |-> Head(frames).frame_number]]
       \o Detections(Tail(frames))

\* get_recent_detections(count): the last 10 frames are walked from the
\* oldest on and the walk returns as soon as count detections are collected
recent_frames == 10
get_recent_detections(session, count) ==
  LET frames == SubSeq(session, Max(1, Len(session) - recent_frames + 1),
                       Len(session))
      recent == Detections(frames)
  IN IF Len(recent) >= count /\ count >= 1 THEN SubSeq(recent, 1, count)
     ELSE IF recent # <<>> /\ count < 1 THEN SubSeq(recent, 1, 1)
     ELSE recent

\* ----------------------------------------------------- script_1: persistence
\* (mutant of prepare_annotations_data: the newest frame is left out)
prepare_annotations_data_without_newest ==
  [total_frames |-> Len(annotations),
   total_objects |-> stats.total_objects,
   statistics |-> stats,
   frames |-> SubSeq(annotations, 1, Len(annotations) - 1)]

\* prepare_annotations_data as json.dump writes it when nothing runs between
\* building and writing it.
prepare_annotations_data ==
  [total_frames |-> Len(annotations),
   total_objects |-> stats.total_objects,
   statistics |-> stats,
   frames |-> annotations]

\* _save_to_json(final); ok: whether open and json.dump succeed.
\* Returns True iff the session is non-empty and the write succeeds.
\* A save that does not look at the session before it writes.
SaveResult_of_any_session(ok) == ok

\* if self.annotations: ... return True; otherwise, or after an exception, False
SaveResult(ok) == annotations # <<>> /\ ok

save_to_json(final, ok) ==
  IF SaveResult(ok)
  THEN IF final
       THEN /\ output_file' = <<prepare_annotations_data>>
            /\ UNCHANGED autosave_file
       ELSE /\ autosave_file' = <<prepare_annotations_data>>
            /\ UNCHANGED output_file
  ELSE UNCHANGED <<autosave_file, output_file>>

\* cleanup(): release the capture, then the final save
cleanup(ok) ==
  /\ cap_opened' = FALSE
  /\ save_to_json(TRUE, ok)
  /\ final_save_calls' = final_save_calls + 1

\* ------------------------------------------------------- script_1: the queue
\* (mutant of full: the capacity test off by one)
full_off_by_one(q) == Len(q) > maxsize
\* (mutant of get_nowait: nothing is removed)
get_nowait_noop(q) == q
\* (mutant of get_nowait: the newest frame is removed)
get_nowait_newest(q) == IF q = <<>> THEN q ELSE SubSeq(q, 1, Len(q) - 1)

\* Queue.full(), also the test put_nowait raises queue.Full on
full(q) == Len(q) >= maxsize
\* Queue.get_nowait(): the head, or queue.Empty (ignored by run)
get_nowait(q) == IF q = <<>> THEN q ELSE Tail(q)
\* Queue.put_nowait(x): at the tail, or queue.Full
put_nowait(q, x) == IF full(q) THEN q ELSE Append(q, x)

\* ------------------------------------------------- script_1: the producer loop
\* The main thread executes run (and is not inside signal_handler).
MainRuns == handler # "cleanup" /\ pc # "done"
\* The process has not exited: its request threads still run.
Alive == pc # "done"

\* self.running is cleared only by signal_handler (which ends in sys.exit) and by
\* the 'q' key (which breaks), so "while self.running" never sees it False.

\* A loop that gives up at the last of its failed reads.
ReadFail_gives_up ==
  /\ MainRuns /\ pc = "loop" /\ running
  /\ failed_reads < MaxFailedReads
  /\ failed_reads' = failed_reads + 1
  /\ pc' = IF failed_reads' = MaxFailedReads THEN "finally" ELSE pc
  /\ UNCHANGED <<srvVars, auxVars>>
  /\ UNCHANGED <<sessVars, ctlVars, current_camera_index, cap_opened, new_source,
                 streamVars, localVars, handler, fileVars, reqVars>>

\* ret is False: warning, sleep(0.1), continue
ReadFail ==
  /\ MainRuns /\ pc = "loop" /\ running
  /\ failed_reads < MaxFailedReads
  /\ failed_reads' = failed_reads + 1
  /\ UNCHANGED <<srvVars, auxVars>>
  /\ UNCHANGED <<sessVars, ctlVars, current_camera_index, cap_opened, new_source,
                 streamVars, pc, localVars, handler, fileVars, reqVars>>

\* ret is True: frame_count += 1
ReadOk(maxFrames) ==
  /\ MainRuns /\ pc = "loop" /\ running /\ cap_opened
  /\ frame_count < maxFrames
  /\ frame_count' = frame_count + 1
  /\ saw_pause' = FALSE
  /\ new_source' = IF new_source = "switched" THEN "frame" ELSE "no"
  /\ failed_reads' = 0
  /\ pc' = "detect"
  /\ UNCHANGED <<srvVars, auxVars>>
  /\ UNCHANGED <<sessVars, ctlVars, current_camera_index, cap_opened, streamVars,
                 saved_frame_count,
                 current_objects, should_save, handler, fileVars, reqVars>>

\* current_objects = OrderedDict(); if not self.pause_annotation: model(...)
Detect(Inputs) ==
  /\ MainRuns /\ pc = "detect"
  /\ IF pause_annotation
     THEN current_objects' = <<>>
     ELSE \E boxes \in Inputs :
            current_objects' = Ingest(boxes, frame_count, conf_cut)
  /\ saw_pause' = pause_annotation
  /\ pc' = "check"
  /\ UNCHANGED <<srvVars, auxVars>>
  /\ UNCHANGED <<sessVars, ctlVars, camVars, streamVars, frame_count,
                 saved_frame_count, should_save, handler, fileVars, reqVars>>

\* the detector raises: except Exception, then finally
DetectRaises ==
  /\ MainRuns /\ pc = "detect" /\ ~pause_annotation
  /\ pc' = "finally"
  /\ UNCHANGED <<srvVars, auxVars>>
  /\ UNCHANGED <<sessVars, ctlVars, camVars, streamVars, localVars, handler,
                 fileVars, reqVars>>

\* should_save = self.has_significant_changes(current_objects)
Check ==
  /\ MainRuns /\ pc = "check"
  /\ should_save' = has_significant_changes(current_objects, prev_objects,
                       pause_annotation, iou_threshold, position_threshold)
  /\ saw_pause' = (saw_pause \/ pause_annotation)
  /\ pc' = "guard"
  /\ UNCHANGED <<srvVars, auxVars>>
  /\ UNCHANGED <<sessVars, ctlVars, camVars, streamVars, frame_count,
                 saved_frame_count, current_objects, handler, fileVars, reqVars>>

\* if should_save and not self.pause_annotation: saved_frame_count += 1
Guard ==
  /\ MainRuns /\ pc = "guard"
  /\ IF should_save /\ ~pause_annotation
     THEN saved_frame_count' = saved_frame_count + 1 /\ pc' = "insert"
     ELSE UNCHANGED saved_frame_count /\ pc' = "history"
  /\ saw_pause' = (saw_pause \/ (should_save /\ pause_annotation))
  /\ UNCHANGED <<srvVars, auxVars>>
  /\ UNCHANGED <<sessVars, ctlVars, camVars, streamVars, frame_count,
                 current_objects, should_save, handler, fileVars, reqVars>>

\* (mutant of NewFrame: the key is built from frame_count)
NewFrame_keyed_by_frame_count(fc, sfc, objs) ==
  [key |-> fc, frame_number |-> fc, saved_index |-> sfc, objects |-> objs]

\* frame_annotation and the key it is stored under
NewFrame(fc, sfc, objs) ==
  [key |-> sfc, frame_number |-> fc, saved_index |-> sfc, objects |-> objs]

\* self.annotations[f"frame_{saved_frame_count}"] = frame_annotation
Insert ==
  /\ MainRuns /\ pc = "insert"
  /\ LET fa == NewFrame(frame_count, saved_frame_count, current_objects)
     IN annotations' = DictSet(annotations, fa.key, fa)
  /\ pc' = "autosave"
  /\ UNCHANGED <<srvVars, auxVars>>
  /\ UNCHANGED <<prev_objects, stats, ctlVars, camVars, streamVars, localVars,
                 handler, fileVars, reqVars>>

\* (mutant of Autosave: a save after every append)
Autosave_every_append ==
  /\ MainRuns /\ pc = "autosave"
  /\ \E ok \in BOOLEAN : save_to_json(FALSE, ok)
  /\ pc' = "setprev"
  /\ UNCHANGED <<srvVars, auxVars>>
  /\ UNCHANGED <<sessVars, ctlVars, camVars, streamVars, localVars, handler,
                 final_save_calls, reqVars>>

\* if saved_frame_count % 10 == 0: self._save_to_json()
Autosave ==
  /\ MainRuns /\ pc = "autosave"
  /\ IF saved_frame_count % autosave_every = 0
     THEN \E ok \in BOOLEAN : save_to_json(FALSE, ok)
     ELSE UNCHANGED <<autosave_file, output_file>>
  /\ pc' = "setprev"
  /\ UNCHANGED <<srvVars, auxVars>>
  /\ UNCHANGED <<sessVars, ctlVars, camVars, streamVars, localVars, handler,
                 final_save_calls, reqVars>>

\* self.prev_objects = current_objects.copy()
SetPrev ==
  /\ MainRuns /\ pc = "setprev"
  /\ prev_objects' = Some(current_objects)
  /\ pc' = "history"
  /\ UNCHANGED <<srvVars, auxVars>>
  /\ UNCHANGED <<annotations, stats, ctlVars, camVars, streamVars, localVars,
                 handler, fileVars, reqVars>>

\* if current_time - last_history_update >= 5:
\*     self.stats['detection_history'].append({...})
\* Elapsed: whether 5 seconds have passed since the last sample
History(Elapsed) ==
  /\ MainRuns /\ pc = "history"
  /\ \E due \in Elapsed :
       IF due
       THEN /\ stats' = [stats EXCEPT !.detection_history =
                           Append(@, [frame |-> frame_count,
                                      object_count |-> Len(current_objects)])]
            /\ pc' = "trim"
       ELSE /\ pc' = "stats"
            /\ UNCHANGED stats
  /\ UNCHANGED <<srvVars, auxVars>>
  /\ UNCHANGED <<annotations, prev_objects, ctlVars, camVars, streamVars,
                 localVars, handler, fileVars, reqVars>>

\* if len(self.stats['detection_history']) > 100:
\*     self.stats['detection_history'] = self.stats['detection_history'][-100:]
HistoryTrim ==
  /\ MainRuns /\ pc = "trim"
  /\ stats' = [stats EXCEPT !.detection_history =
                 IF Len(@) > history_cap
                 THEN SubSeq(@, Len(@) - history_cap + 1, Len(@))
                 ELSE @]
  /\ pc' = "stats"
  /\ UNCHANGED <<srvVars, auxVars>>
  /\ UNCHANGED <<annotations, prev_objects, ctlVars, camVars, streamVars,
                 localVars, handler, fileVars, reqVars>>

\* self.stats['total_frames'] = ...; ['saved_frames'] = ...; ['total_objects'] = sum(...)
UpdateStats ==
  /\ MainRuns /\ pc = "stats"
  /\ stats' = [stats EXCEPT !.total_frames = frame_count,
                            !.saved_frames = saved_frame_count,
                            !.total_objects = SumObjects(annotations)]
  /\ pc' = "full"
  /\ UNCHANGED <<srvVars, auxVars>>
  /\ UNCHANGED <<annotations, prev_objects, ctlVars, camVars, streamVars,
                 localVars, handler, fileVars, reqVars>>

\* if self.frame_queue.full():
QueueFull ==
  /\ MainRuns /\ pc = "full"
  /\ pc' = IF full(frame_queue) THEN "get" ELSE "put"
  /\ UNCHANGED <<srvVars, auxVars>>
  /\ UNCHANGED <<sessVars, ctlVars, camVars, streamVars, localVars, handler,
                 fileVars, reqVars>>

\* self.frame_queue.get_nowait(), queue.Empty ignored
QueueEvict ==
  /\ MainRuns /\ pc = "get"
  /\ frame_queue' = get_nowait(frame_queue)
  /\ pc' = "put"
  /\ UNCHANGED <<srvVars, auxVars>>
  /\ UNCHANGED <<sessVars, ctlVars, camVars, latest_frame, frame_lock, localVars,
                 handler, fileVars, reqVars>>

\* self.frame_queue.put_nowait(display_frame); queue.Full skips latest_frame
QueuePut ==
  /\ MainRuns /\ pc = "put"
  /\ frame_queue' = put_nowait(frame_queue, frame_count)
  /\ pc' = IF full(frame_queue) THEN "key" ELSE "latest"
  /\ UNCHANGED <<srvVars, auxVars>>
  /\ UNCHANGED <<sessVars, ctlVars, camVars, latest_frame, frame_lock, localVars,
                 handler, fileVars, reqVars>>

\* with self.frame_lock: self.latest_frame = display_frame.copy()
\* The main thread waits at "latest" for as long as a request holds the lock.
SetLatest ==
  /\ MainRuns /\ pc = "latest"
  /\ frame_lock = "free"
  /\ latest_frame' = frame_count
  /\ pc' = "key"
  /\ UNCHANGED <<srvVars, auxVars>>
  /\ UNCHANGED <<sessVars, ctlVars, camVars, frame_queue, frame_lock, localVars,
                 handler, fileVars, reqVars>>

\* cv2.waitKey(1): no key
KeyNone ==
  /\ MainRuns /\ pc = "key"
  /\ pc' = "loop"
  /\ UNCHANGED <<srvVars, auxVars>>
  /\ UNCHANGED <<sessVars, ctlVars, camVars, streamVars, localVars, handler,
                 fileVars, reqVars>>

\* 'q' or ESC: self.running = False; break
KeyQuit ==
  /\ MainRuns /\ pc = "key"
  /\ running' = FALSE
  /\ pc' = "finally"
  /\ UNCHANGED <<srvVars, auxVars>>
  /\ UNCHANGED <<sessVars, pause_annotation, iou_threshold, position_threshold,
                 camVars, streamVars, localVars, handler, fileVars, reqVars>>

\* ' ': self.pause_annotation = not self.pause_annotation
KeySpace ==
  /\ MainRuns /\ pc = "key"
  /\ pause_annotation' = ~pause_annotation
  /\ pc' = "loop"
  /\ toggles_odd' = ~toggles_odd
  /\ UNCHANGED <<srvVars, iou_call, pause_calls, save_reply>>
  /\ UNCHANGED <<sessVars, running, iou_threshold, position_threshold, camVars,
                 streamVars, localVars, handler, fileVars, reqVars>>

\* 's': self._save_to_json()
KeySave ==
  /\ MainRuns /\ pc = "key"
  /\ \E ok \in BOOLEAN : save_to_json(FALSE, ok)
  /\ pc' = "loop"
  /\ UNCHANGED <<srvVars, auxVars>>
  /\ UNCHANGED <<sessVars, ctlVars, camVars, streamVars, localVars, handler,
                 final_save_calls, reqVars>>

\* switch_camera(camera_index); opened: whether the new capture opens
switch_camera(camera_index, opened) ==
  /\ current_camera_index' = camera_index
  /\ cap_opened' = opened
  /\ prev_objects' = IF opened THEN None ELSE prev_objects
  /\ new_source' = IF opened THEN "switched" ELSE new_source

\* 'c': next camera index, then self.switch_camera(...)
KeyCamera ==
  /\ MainRuns /\ pc = "key"
  /\ \E opened \in BOOLEAN :
       switch_camera((current_camera_index + 1) % Max(Len(available_cameras), 1),
                     opened)
  /\ pc' = "loop"
  /\ UNCHANGED <<srvVars, auxVars>>
  /\ UNCHANGED <<annotations, stats, ctlVars, failed_reads, streamVars, localVars,
                 handler, fileVars, reqVars>>

\* A cleanup that never returns.
Finally_never_returns ==
  /\ MainRuns /\ pc = "finally"
  /\ UNCHANGED vars

\* finally: self.cleanup()
Finally ==
  /\ MainRuns /\ pc = "finally"
  /\ \E ok \in BOOLEAN : cleanup(ok)
  /\ pc' = "done"
  /\ UNCHANGED <<srvVars, auxVars>>
  /\ UNCHANGED <<sessVars, ctlVars, current_camera_index, new_source, failed_reads,
                 streamVars,
                 localVars, handler, reqVars>>

\* ---------------------------------------------------- script_1: signal_handler
\* SIGINT/SIGTERM is delivered to the main thread, wherever it is in run.
Signal ==
  /\ handler = "none" /\ pc # "done"
  /\ running' = FALSE
  /\ handler' = "cleanup"
  /\ UNCHANGED <<srvVars, auxVars>>
  /\ UNCHANGED <<sessVars, pause_annotation, iou_threshold, position_threshold,
                 camVars, streamVars, pc, localVars, fileVars, reqVars>>

\* self.cleanup(); sys.exit(0): SystemExit unwinds run, whose finally clause
\* runs if the main thread was inside the try block.
HandlerCleanup ==
  /\ handler = "cleanup"
  /\ \E ok \in BOOLEAN : cleanup(ok)
  /\ handler' = "exited"
  /\ pc' = IF pc = "finally" THEN "done" ELSE "finally"
  /\ UNCHANGED <<srvVars, auxVars>>
  /\ UNCHANGED <<sessVars, ctlVars, current_camera_index, new_source, failed_reads,
                 streamVars,
                 localVars, reqVars>>

\* ---------------------------------------------------- script_1: request threads
\* /api/toggle_pause, step by step: not self.pause_annotation is evaluated
TogglePauseRead(c) ==
  /\ Alive /\ pause_calls[c].pc \in {"idle", "replied"}
  /\ pause_calls' = [pause_calls EXCEPT ![c] =
                       [pc |-> "read", val |-> ~pause_annotation, reply |-> FALSE]]
  /\ UNCHANGED <<s1Vars, srvVars, iou_call, toggles_odd, save_reply>>

\* self.pause_annotation = <the value evaluated>
TogglePauseStore(c) ==
  /\ Alive /\ pause_calls[c].pc = "read"
  /\ pause_annotation' = pause_calls[c].val
  /\ toggles_odd' = ~toggles_odd
  /\ pause_calls' = [pause_calls EXCEPT ![c].pc = "stored"]
  /\ UNCHANGED <<srvVars, iou_call, save_reply>>
  /\ UNCHANGED <<sessVars, running, iou_threshold, position_threshold, camVars,
                 streamVars, pc, localVars, handler, fileVars, reqVars>>

\* return jsonify({'paused': self.pause_annotation})
TogglePauseReply(c) ==
  /\ Alive /\ pause_calls[c].pc = "stored"
  /\ pause_calls' = [pause_calls EXCEPT ![c].pc = "replied",
                                        ![c].reply = pause_annotation]
  /\ UNCHANGED <<s1Vars, srvVars, iou_call, toggles_odd, save_reply>>

\* Concurrent /api/toggle_pause requests.
toggle_pause_calls ==
  \E c \in Callers :
    TogglePauseRead(c) \/ TogglePauseStore(c) \/ TogglePauseReply(c)

\* /api/toggle_pause as one step: a request that no other toggle runs into
\* between its read and its store.
toggle_pause ==
  /\ Alive
  /\ pause_annotation' = ~pause_annotation
  /\ toggles_odd' = ~toggles_odd
  /\ UNCHANGED <<srvVars, iou_call, pause_calls, save_reply>>
  /\ UNCHANGED <<sessVars, running, iou_threshold, position_threshold, camVars,
                 streamVars, pc, localVars, handler, fileVars, reqVars>>

\* /api/update_settings: 'confidence' is looked up and ignored (pass);
\* self.iou_threshold = float(data['iou_threshold']); an exception is answered
\* with the error and status 400
update_settings ==
  /\ Alive
  /\ \E iou \in IouInputs : \E confidence \in ConfidenceInputs :
       /\ iou_threshold' = IF iou.kind = "number" THEN iou.val ELSE iou_threshold
       /\ settings_req' =
            [iou |-> iou, motion |-> Absent, confidence |-> confidence,
             reply |-> IF iou.kind = "word" THEN "error" ELSE "ok"]
  /\ UNCHANGED <<srvVars, auxVars>>
  /\ UNCHANGED <<sessVars, running, pause_annotation, position_threshold, camVars,
                 streamVars, pc, localVars, handler, fileVars, frame_data,
                 video_feed, sw_pc,
                 ex_pc, ex_doc, snapVars>>

\* /api/switch_camera: release, reopen
SwitchOpen ==
  /\ Alive /\ sw_pc = "idle"
  /\ \E idx \in {0, 1} : \E opened \in BOOLEAN :
       /\ current_camera_index' = idx
       /\ cap_opened' = opened
       /\ sw_pc' = IF opened THEN "opened" ELSE "idle"
  /\ UNCHANGED <<srvVars, auxVars>>
  /\ UNCHANGED <<sessVars, ctlVars, new_source, failed_reads, streamVars, pc,
                 localVars, handler, fileVars,
                 frame_data, video_feed, ex_pc, ex_doc, snapVars, settings_req>>

\* /api/switch_camera: self.prev_objects = None
SwitchReset ==
  /\ Alive /\ sw_pc = "opened"
  /\ prev_objects' = None
  /\ new_source' = "switched"
  /\ sw_pc' = "idle"
  /\ UNCHANGED <<srvVars, auxVars>>
  /\ UNCHANGED <<annotations, stats, ctlVars, current_camera_index, cap_opened,
                 failed_reads, streamVars, pc, localVars, handler, fileVars, frame_data,
                 video_feed, ex_pc,
                 ex_doc, snapVars, settings_req>>

\* /api/download_annotations or /api/save_session entering
\* prepare_annotations_data: the metadata entries are evaluated first
ExportStart(kind) ==
  /\ Alive /\ ex_pc = "idle" /\ annotations # <<>>
  /\ ex_doc' = <<[kind |-> kind,
                  total_frames |-> Len(annotations),
                  total_objects |-> stats.total_objects,
                  frames |-> <<>>]>>
  /\ ex_pc' = "meta"
  /\ save_reply' = IF kind = "save" THEN "none" ELSE save_reply
  /\ UNCHANGED <<srvVars, iou_call, pause_calls, toggles_odd>>
  /\ UNCHANGED <<sessVars, ctlVars, camVars, streamVars, pc, localVars, handler,
                 fileVars, frame_data, video_feed, sw_pc, snapVars, settings_req>>

download_annotations == ExportStart("download")

\* /api/save_session on an empty session: _save_to_json returns False without
\* opening a file, the response is 500
SaveSessionEmpty ==
  /\ Alive /\ ex_pc = "idle" /\ annotations = <<>>
  /\ save_reply' = "error"
  /\ UNCHANGED <<s1Vars, srvVars, iou_call, pause_calls, toggles_odd>>

save_session == ExportStart("save") \/ SaveSessionEmpty

\* 'frames': dict(self.annotations); the document is returned
ExportFrames ==
  /\ Alive /\ ex_pc = "meta"
  /\ ex_doc' = <<[ex_doc[1] EXCEPT !.frames = annotations]>>
  /\ ex_pc' = "doc"
  /\ UNCHANGED <<srvVars, auxVars>>
  /\ UNCHANGED <<sessVars, ctlVars, camVars, streamVars, pc, localVars, handler,
                 fileVars, frame_data, video_feed, sw_pc, snapVars, settings_req>>

\* The document a holder of d reads: 'statistics' is self.stats itself.
DocView(d) ==
  [total_frames |-> d.total_frames, total_objects |-> d.total_objects,
   statistics |-> stats, frames |-> d.frames]

\* json.dumps / json.dump of the returned document
ExportDump ==
  /\ Alive /\ ex_pc = "doc"
  /\ IF ex_doc[1].kind = "save"
     THEN \E ok \in BOOLEAN :
            IF ok THEN /\ autosave_file' = <<DocView(ex_doc[1])>>
                       /\ save_reply' = "ok"
                  ELSE /\ save_reply' = "error"
                       /\ UNCHANGED autosave_file
     ELSE UNCHANGED <<autosave_file, save_reply>>
  /\ ex_doc' = <<>>
  /\ ex_pc' = "idle"
  /\ UNCHANGED <<srvVars, iou_call, pause_calls, toggles_odd>>
  /\ UNCHANGED <<sessVars, ctlVars, camVars, streamVars, pc, localVars, handler,
                 output_file, final_save_calls, frame_data, video_feed, sw_pc,
                 snapVars, settings_req>>

\* GET /video: return Response(generate(), ...)
ViewerOpen ==
  /\ Alive
  /\ \E v \in Viewers :
       /\ video_feed[v] = "none"
       /\ video_feed' = [video_feed EXCEPT ![v] = "streaming"]
  /\ UNCHANGED <<srvVars, auxVars>>
  /\ UNCHANGED <<sessVars, ctlVars, camVars, streamVars, pc, localVars, handler,
                 fileVars, frame_data, sw_pc, ex_pc, ex_doc, snapVars,
                 settings_req>>

\* A generate() that looks at the head of the queue and leaves it there.
ViewerGet_peeks ==
  /\ Alive /\ running /\ frame_queue # <<>>
  /\ \E v \in Viewers :
       /\ video_feed[v] = "streaming"
       /\ frame_data' = [frame_data EXCEPT ![v] = Head(frame_queue)]
  /\ UNCHANGED <<srvVars, auxVars>>
  /\ UNCHANGED <<sessVars, ctlVars, camVars, streamVars, pc, localVars, handler,
                 fileVars, video_feed, sw_pc, ex_pc, ex_doc, snapVars,
                 settings_req>>

\* /video generate(): frame_data = self.frame_queue.get(timeout=1.0)
ViewerGet ==
  /\ Alive /\ running /\ frame_queue # <<>>
  /\ \E v \in Viewers :
       /\ video_feed[v] = "streaming"
       /\ frame_data' = [frame_data EXCEPT ![v] = Head(frame_queue)]
  /\ frame_queue' = Tail(frame_queue)
  /\ UNCHANGED <<srvVars, auxVars>>
  /\ UNCHANGED <<sessVars, ctlVars, camVars, latest_frame, frame_lock, pc,
                 localVars, handler, fileVars, video_feed, sw_pc, ex_pc, ex_doc,
                 snapVars, settings_req>>

\* except queue.Empty: continue, after the timeout of one second
ViewerEmpty ==
  /\ Alive /\ running /\ frame_queue = <<>>
  /\ \E v \in Viewers : video_feed[v] = "streaming"
  /\ UNCHANGED vars

\* while self.running: is False, generate() returns
GenerateExit(v) ==
  /\ Alive /\ ~running
  /\ video_feed[v] = "streaming"
  /\ video_feed' = [video_feed EXCEPT ![v] = "ended"]
  /\ UNCHANGED <<srvVars, auxVars>>
  /\ UNCHANGED <<sessVars, ctlVars, camVars, streamVars, pc, localVars, handler,
                 fileVars, frame_data, sw_pc, ex_pc, ex_doc, snapVars,
                 settings_req>>

ViewerExit == \E v \in Viewers : GenerateExit(v)

\* /api/take_snapshot: with self.frame_lock: ... the whole body of the request
\* runs inside the with block.
SnapLock ==
  /\ Alive /\ snap_pc = "idle"
  /\ frame_lock = "free"
  /\ frame_lock' = "take_snapshot"
  /\ snap_pc' = IF latest_frame # 0 THEN "imwrite" ELSE "return"
  /\ UNCHANGED <<srvVars, auxVars>>
  /\ UNCHANGED <<sessVars, ctlVars, camVars, frame_queue, latest_frame, pc,
                 localVars, handler, fileVars, frame_data,
                 video_feed, sw_pc, ex_pc, ex_doc,
                 screenshots, settings_req>>

\* cv2.imwrite(str(filepath), self.latest_frame); if self.prev_objects:
SnapWrite ==
  /\ Alive /\ snap_pc = "imwrite"
  /\ screenshots' = screenshots \cup {<<"snapshot", latest_frame>>}
  /\ snap_pc' = IF prev_objects.set /\ prev_objects.objs # <<>>
                THEN "annotated" ELSE "return"
  /\ UNCHANGED <<srvVars, auxVars>>
  /\ UNCHANGED <<sessVars, ctlVars, camVars, streamVars, pc, localVars, handler,
                 fileVars, frame_data,
                 video_feed, sw_pc, ex_pc, ex_doc, settings_req>>

\* annotated_frame = self.latest_frame.copy(); ...;
\* cv2.imwrite(str(annotated_filepath), annotated_frame)
SnapWriteAnnotated ==
  /\ Alive /\ snap_pc = "annotated"
  /\ screenshots' = screenshots \cup {<<"snapshot_annotated", latest_frame>>}
  /\ snap_pc' = "return"
  /\ UNCHANGED <<srvVars, auxVars>>
  /\ UNCHANGED <<sessVars, ctlVars, camVars, streamVars, pc, localVars, handler,
                 fileVars, frame_data,
                 video_feed, sw_pc, ex_pc, ex_doc, settings_req>>

\* return jsonify(...): the with block is left
SnapReturn ==
  /\ Alive /\ snap_pc = "return"
  /\ frame_lock' = "free"
  /\ snap_pc' = "idle"
  /\ UNCHANGED <<srvVars, auxVars>>
  /\ UNCHANGED <<sessVars, ctlVars, camVars, frame_queue, latest_frame, pc,
                 localVars, handler, fileVars, frame_data,
                 video_feed, sw_pc, ex_pc, ex_doc,
                 screenshots, settings_req>>

take_snapshot == SnapLock \/ SnapWrite \/ SnapWriteAnnotated \/ SnapReturn

\* /camera_preview/<current camera>: with self.frame_lock:
PreviewLock ==
  /\ Alive /\ frame_lock = "free"
  /\ frame_lock' = "camera_preview"
  /\ UNCHANGED <<srvVars, auxVars>>
  /\ UNCHANGED <<sessVars, ctlVars, camVars, frame_queue, latest_frame, pc,
                 localVars, handler, fileVars, reqVars>>

\* frame = self.latest_frame.copy() (or a black frame); the with block is left,
\* resize, imencode and the response follow outside it
PreviewCopy ==
  /\ Alive /\ frame_lock = "camera_preview"
  /\ frame_lock' = "free"
  /\ UNCHANGED <<srvVars, auxVars>>
  /\ UNCHANGED <<sessVars, ctlVars, camVars, frame_queue, latest_frame, pc,
                 localVars, handler, fileVars, reqVars>>

camera_preview == PreviewLock \/ PreviewCopy

\* ------------------------------------------------------ script_1: specifications
\* The steps of run()'s while loop.  The eviction step (QueueEvict) needs a
\* full queue, that is at least maxsize frames read: it is a disjunct of the
\* streaming specification only, and NoEvictionYet states that the other
\* specifications never arrive at it.
ProducerSteps(Inputs, maxFrames) ==
  \/ ReadFail \/ ReadOk(maxFrames)
  \/ Detect(Inputs) \/ DetectRaises
  \/ Check \/ Guard \/ Insert \/ Autosave \/ SetPrev \/ UpdateStats
  \/ QueueFull \/ QueuePut \/ SetLatest
  \/ KeyNone \/ Finally

\* A run of a few frames is over before the first 5 seconds have passed
\* (last_history_update starts at the time run() is entered): no sample is
\* taken, and the trimming step (HistoryTrim) is a disjunct of the long-run
\* specification only.
Producer(Inputs, maxFrames) ==
  \/ ProducerSteps(Inputs, maxFrames)
  \/ History({FALSE})

Next ==
  \/ Producer(Scenes, MaxFrames)
  \/ KeyQuit \/ KeySpace \/ KeySave \/ KeyCamera
  \/ Signal \/ HandlerCleanup
  \/ toggle_pause

Spec == Init /\ [][Next]_vars

NextStream ==
  \/ Producer(EmptyScenes, MaxFramesStream)
  \/ QueueEvict
  \/ ViewerOpen \/ ViewerGet

SpecStream == Init /\ [][NextStream]_vars

\* With fewer than maxsize frames read, full() is never answered True.
NoEvictionYet == frame_count < maxsize => pc # "get"

NextLong ==
  \/ Producer(StillScenes, MaxFramesLong)
  \/ KeyQuit \/ KeySpace \/ KeySave \/ KeyCamera

SpecLong == Init /\ [][NextLong]_vars

\* The producer with snapshot and preview requests from the web interface.
NextSnap ==
  \/ Producer(StillScenes, MaxFrames)
  \/ take_snapshot
  \/ camera_preview

SpecSnap == Init /\ [][NextSnap]_vars

\* The producer with camera switches from the 'c' key and from
\* /api/switch_camera requests.
NextSwitch ==
  \/ Producer(Scenes, MaxFrames)
  \/ KeyCamera
  \/ SwitchOpen \/ SwitchReset

SpecSwitch == Init /\ [][NextSwitch]_vars

\* The producer with update_settings requests from the web interface.
NextSettings ==
  \/ Producer(Scenes, MaxFrames)
  \/ update_settings

SpecSettings == Init /\ [][NextSettings]_vars

\* A long run in front of a slow source: every frame comes 5 seconds or more
\* after the one before, so every iteration takes a sample; a save_session
\* request reads the statistics meanwhile.
NextHistory ==
  \/ ProducerSteps(EmptyScenes, MaxFramesHistory)
  \/ History({TRUE}) \/ HistoryTrim
  \/ QueueEvict
  \/ save_session \/ ExportFrames \/ ExportDump

SpecHistory == Init /\ [][NextHistory]_vars

\* The loop, the space key and concurrent toggle_pause requests.
NextPause ==
  \/ Producer(EmptyScenes, MaxFrames)
  \/ KeySpace
  \/ toggle_pause_calls

SpecPause == Init /\ [][NextPause]_vars

\* Nobody touches the controls: the loop alone, on every scene.
NextQuiet ==
  \/ Producer(Scenes, MaxFrames)

SpecQuiet == Init /\ [][NextQuiet]_vars

\* A still or empty scene.
ExportScenes == { <<>>, <<Det("person", BoxA, 90)>> }

\* The loop and one download_annotations / save_session request at a time.
NextExport ==
  \/ Producer(ExportScenes, MaxFrames)
  \/ download_annotations \/ save_session \/ ExportFrames \/ ExportDump

SpecExport == Init /\ [][NextExport]_vars


\* ======================================================= server.py
\* has_significant_changes of server.py: paused counts as significant
srv_has_significant_changes(cur, prev, paused, iou_th, pos_th) ==
  IF paused \/ ~prev.set THEN TRUE
  ELSE IF Len(cur) # Len(prev.objs) THEN TRUE
  ELSE IF Labels(cur) # Labels(prev.objs) THEN TRUE
  ELSE PositionChanged(cur, prev.objs, iou_th, pos_th)

\* What the detector may return for one posted frame.
SrvScenes ==
  { <<>>,
    <<Det("person", BoxA, 90)>>,
    <<Det("person", BoxB, 90)>>,
    <<Det("car", BoxA, 90)>>,
    <<Det("person", BoxZ, 90)>> }

\* The process has not exited: Flask's daemon threads still serve requests.
SrvAlive == srv_main # "done"

\* self.stats[k] = v through a reference d to a stats dict: a store into a
\* dict that reset_stats has replaced meanwhile does not reach self.stats.
StatsStore(d, k, v) ==
  IF d = srv_stats_id THEN [srv_stats EXCEPT ![k] = v] ELSE srv_stats

\* A handler that counts the posted frame before it decodes it.
PfBegin_counts_before_decoding(t) ==
  /\ SrvAlive /\ srv_pc[t] = "idle" /\ srv_requests < MaxRequests
  /\ srv_requests' = srv_requests + 1
  /\ srv_stats' = [srv_stats EXCEPT !.total_frames = @ + 1]
  /\ \E decoded \in BOOLEAN :
       IF decoded
       THEN /\ srv_tmp' = [srv_tmp EXCEPT ![t] = <<srv_stats_id, srv_stats.total_frames>>]
            /\ srv_pc' = [srv_pc EXCEPT ![t] = "tf_write"]
            /\ srv_reply' = [srv_reply EXCEPT ![t] = "none"]
       ELSE /\ srv_reply' = [srv_reply EXCEPT ![t] = "false"]
            /\ UNCHANGED <<srv_tmp, srv_pc>>
  /\ UNCHANGED <<srv_annotations, srv_prev_objects, srv_stats_id, srv_latest_frame,
                 srvCtl, srv_cur, srv_fa, srvMain, srvFiles>>
  /\ UNCHANGED <<s1Vars, auxVars>>

\* request received; decoding fails (frame is None, or b64decode raises) and
\* the response is success False, or: self.stats['total_frames'] += 1 reads
PfBegin(t) ==
  /\ SrvAlive /\ srv_pc[t] = "idle" /\ srv_requests < MaxRequests
  /\ srv_requests' = srv_requests + 1
  /\ \E decoded \in BOOLEAN :
       IF decoded
       THEN /\ srv_tmp' = [srv_tmp EXCEPT ![t] = <<srv_stats_id, srv_stats.total_frames>>]
            /\ srv_pc' = [srv_pc EXCEPT ![t] = "tf_write"]
            /\ srv_reply' = [srv_reply EXCEPT ![t] = "none"]
       ELSE /\ srv_reply' = [srv_reply EXCEPT ![t] = "false"]
            /\ UNCHANGED <<srv_tmp, srv_pc>>
  /\ UNCHANGED <<srvSess, srvCtl, srv_cur, srv_fa, srvMain, srvFiles>>
  /\ UNCHANGED <<s1Vars, auxVars>>

\* self.stats['total_frames'] += 1 stores;
\* with self.frame_lock: self.latest_frame = frame.copy()
PfCount(t) ==
  /\ SrvAlive /\ srv_pc[t] = "tf_write"
  /\ srv_stats' = StatsStore(srv_tmp[t][1], "total_frames", srv_tmp[t][2] + 1)
  /\ srv_latest_frame' = srv_tmp[t][2] + 1
  /\ srv_tmp' = [srv_tmp EXCEPT ![t] = <<0, 0>>]
  /\ srv_pc' = [srv_pc EXCEPT ![t] = "detect"]
  /\ UNCHANGED <<srv_annotations, srv_prev_objects, srv_stats_id, srvCtl,
                 srv_requests, srv_cur, srv_fa, srv_reply, srvMain, srvFiles>>
  /\ UNCHANGED <<s1Vars, auxVars>>

\* confidence = client_settings.get('confidence', 0.5): the default, or what
\* the posting client asks for.
ClientConfidence == {conf_cut, 95}

\* self.stats['object_counts'][label] = ...get(label, 0) + 1 for every
\* detection kept
CountLabels(counts, objs) ==
  [l \in DetectorLabels |->
     counts[l] + Cardinality({i \in 1..Len(objs) : objs[i].label = l})]

\* if not self.pause_annotation: results = self.model(...); current_objects
\* is built when result.boxes is not None, and every kept detection is counted
PfDetect(t) ==
  /\ SrvAlive /\ srv_pc[t] = "detect"
  /\ IF srv_pause_annotation
     THEN /\ srv_pc' = [srv_pc EXCEPT ![t] = "total"]
          /\ UNCHANGED srv_cur
     ELSE \/ /\ srv_pc' = [srv_pc EXCEPT ![t] = "total"]
             /\ UNCHANGED srv_cur
          \/ \E boxes \in SrvScenes : \E confidence \in ClientConfidence :
               /\ srv_cur' = [srv_cur EXCEPT ![t] =
                                Ingest(boxes, srv_stats.total_frames, confidence)]
               /\ srv_pc' = [srv_pc EXCEPT ![t] = "check"]
  /\ srv_stats' = [srv_stats EXCEPT !.object_counts =
                     CountLabels(@, srv_cur'[t])]
  /\ UNCHANGED <<srv_annotations, srv_prev_objects, srv_stats_id, srv_latest_frame,
                 srvCtl, srv_requests, srv_tmp, srv_fa, srv_reply, srvMain, srvFiles>>
  /\ UNCHANGED <<s1Vars, auxVars>>

\* if self.has_significant_changes(current_objects):
\*     self.stats['saved_frames'] += 1 reads
PfCheck(t) ==
  /\ SrvAlive /\ srv_pc[t] = "check"
  /\ IF srv_has_significant_changes(srv_cur[t], srv_prev_objects,
          srv_pause_annotation, srv_iou_threshold, srv_position_threshold)
     THEN /\ srv_tmp' = [srv_tmp EXCEPT ![t] = <<srv_stats_id, srv_stats.saved_frames>>]
          /\ srv_pc' = [srv_pc EXCEPT ![t] = "sf_write"]
     ELSE /\ srv_pc' = [srv_pc EXCEPT ![t] = "total"]
          /\ UNCHANGED srv_tmp
  /\ UNCHANGED <<srvSess, srvCtl, srv_requests, srv_cur, srv_fa, srv_reply, srvMain, srvFiles>>
  /\ UNCHANGED <<s1Vars, auxVars>>

\* self.stats['saved_frames'] += 1 stores
PfSaved(t) ==
  /\ SrvAlive /\ srv_pc[t] = "sf_write"
  /\ srv_stats' = StatsStore(srv_tmp[t][1], "saved_frames", srv_tmp[t][2] + 1)
  /\ srv_tmp' = [srv_tmp EXCEPT ![t] = <<0, 0>>]
  /\ srv_pc' = [srv_pc EXCEPT ![t] = "mk"]
  /\ UNCHANGED <<srv_annotations, srv_prev_objects, srv_stats_id, srv_latest_frame, srvCtl,
                 srv_requests, srv_cur, srv_fa, srv_reply,
                 srvMain, srvFiles>>
  /\ UNCHANGED <<s1Vars, auxVars>>

\* frame_annotation = {'frame_number': self.stats['total_frames'],
\*                     'saved_index': self.stats['saved_frames'], ...}
SrvNewFrame(objs) ==
  [frame_number |-> srv_stats.total_frames,
   saved_index |-> srv_stats.saved_frames,
   objects |-> objs]

PfMake(t) ==
  /\ SrvAlive /\ srv_pc[t] = "mk"
  /\ srv_fa' = [srv_fa EXCEPT ![t] = <<SrvNewFrame(srv_cur[t])>>]
  /\ srv_pc' = [srv_pc EXCEPT ![t] = "insert"]
  /\ UNCHANGED <<srvSess, srvCtl, srv_requests, srv_tmp, srv_cur, srv_reply, srvMain, srvFiles>>
  /\ UNCHANGED <<s1Vars, auxVars>>

\* self.annotations[f"frame_{self.stats['saved_frames']}"] = frame_annotation
SrvStore(d, fa) ==
  DictSet(d, srv_stats.saved_frames,
          [key |-> srv_stats.saved_frames, frame_number |-> fa.frame_number,
           saved_index |-> fa.saved_index, objects |-> fa.objects])

PfInsert(t) ==
  /\ SrvAlive /\ srv_pc[t] = "insert"
  /\ srv_annotations' = SrvStore(srv_annotations, srv_fa[t][1])
  /\ srv_pc' = [srv_pc EXCEPT ![t] = "prev"]
  /\ UNCHANGED <<srv_prev_objects, srv_stats, srv_stats_id, srv_latest_frame, srvCtl, srv_requests,
                 srv_tmp, srv_cur, srv_fa, srv_reply,
                 srvMain, srvFiles>>
  /\ UNCHANGED <<s1Vars, auxVars>>

\* self.prev_objects = current_objects.copy()
PfSetPrev(t) ==
  /\ SrvAlive /\ srv_pc[t] = "prev"
  /\ srv_prev_objects' = Some(srv_cur[t])
  /\ srv_pc' = [srv_pc EXCEPT ![t] = "history"]
  /\ UNCHANGED <<srv_annotations, srv_stats, srv_stats_id, srv_latest_frame, srvCtl,
                 srv_requests, srv_tmp, srv_cur, srv_fa, srv_reply, srvMain, srvFiles>>
  /\ UNCHANGED <<s1Vars, auxVars>>

\* self.stats['detection_history'].append({'timestamp': ...,
\*     'object_count': len(current_objects)})
PfHistory(t) ==
  /\ SrvAlive /\ srv_pc[t] = "history"
  /\ srv_stats' = [srv_stats EXCEPT !.detection_history =
                     Append(@, [frame |-> srv_fa[t][1].frame_number,
                                object_count |-> Len(srv_cur[t])])]
  /\ srv_pc' = [srv_pc EXCEPT ![t] = "trim"]
  /\ UNCHANGED <<srv_annotations, srv_prev_objects, srv_stats_id, srv_latest_frame,
                 srvCtl, srv_requests, srv_tmp, srv_cur, srv_fa, srv_reply, srvMain,
                 srvFiles>>
  /\ UNCHANGED <<s1Vars, auxVars>>

\* if len(self.stats['detection_history']) > 100: keep the last 100
PfHistoryTrim(t) ==
  /\ SrvAlive /\ srv_pc[t] = "trim"
  /\ srv_stats' = [srv_stats EXCEPT !.detection_history =
                     IF Len(@) > history_cap
                     THEN SubSeq(@, Len(@) - history_cap + 1, Len(@))
                     ELSE @]
  /\ srv_pc' = [srv_pc EXCEPT ![t] = "total"]
  /\ UNCHANGED <<srv_annotations, srv_prev_objects, srv_stats_id, srv_latest_frame,
                 srvCtl, srv_requests, srv_tmp, srv_cur, srv_fa, srv_reply, srvMain,
                 srvFiles>>
  /\ UNCHANGED <<s1Vars, auxVars>>

\* self.stats['total_objects'] = sum(len(frame['objects']) for ...); respond
PfTotal(t) ==
  /\ SrvAlive /\ srv_pc[t] = "total"
  /\ srv_stats' = [srv_stats EXCEPT !.total_objects = SumObjects(srv_annotations)]
  /\ srv_pc' = [srv_pc EXCEPT ![t] = "idle"]
  /\ srv_cur' = [srv_cur EXCEPT ![t] = <<>>]
  /\ srv_fa' = [srv_fa EXCEPT ![t] = <<>>]
  /\ srv_reply' = [srv_reply EXCEPT ![t] = "true"]
  /\ UNCHANGED <<srv_annotations, srv_prev_objects, srv_stats_id, srv_latest_frame, srvCtl,
                 srv_requests, srv_tmp, srvMain, srvFiles>>
  /\ UNCHANGED <<s1Vars, auxVars>>

process_frame ==
  \E t \in Threads :
    \/ PfBegin(t) \/ PfCount(t) \/ PfDetect(t) \/ PfCheck(t) \/ PfSaved(t)
    \/ PfMake(t) \/ PfInsert(t) \/ PfSetPrev(t) \/ PfHistory(t)
    \/ PfHistoryTrim(t) \/ PfTotal(t)

\* /api/toggle_pause
srv_toggle_pause ==
  /\ SrvAlive
  /\ srv_pause_annotation' = ~srv_pause_annotation
  /\ UNCHANGED <<srvSess, srv_running, srv_iou_threshold, srv_position_threshold,
                 srv_settings, srv_settings_req, srvThreads, srvMain, srvFiles>>
  /\ UNCHANGED <<s1Vars, auxVars>>

\* /api/update_settings: iouThreshold, then motionThreshold, then the other
\* settings, in this order; float() or int() raising ends the request with
\* the error and status 400, what was assigned before stays assigned
srv_update_settings ==
  /\ SrvAlive
  /\ \E iou \in IouInputs : \E motion \in MotionInputs :
     \E confidence \in ConfidenceInputs :
       LET iou_done == iou.kind # "word"
           motion_done == iou_done /\ motion.kind # "word"
       IN /\ srv_iou_threshold' =
               IF iou.kind = "number" THEN iou.val ELSE srv_iou_threshold
          /\ srv_position_threshold' =
               IF iou_done /\ motion.kind = "number"
               THEN motion.val ELSE srv_position_threshold
          /\ srv_settings' =
               IF motion_done /\ confidence.kind = "number"
               THEN [srv_settings EXCEPT !.confidence = confidence.val]
               ELSE srv_settings
          /\ srv_settings_req' =
               [iou |-> iou, motion |-> motion, confidence |-> confidence,
                reply |-> IF motion_done THEN "ok" ELSE "error"]
  /\ UNCHANGED <<srvSess, srv_running, srv_pause_annotation, srvThreads, srvMain,
                 srvFiles>>
  /\ UNCHANGED <<s1Vars, auxVars>>

\* /api/clear_annotations
clear_annotations ==
  /\ SrvAlive
  /\ srv_annotations' = <<>>
  /\ srv_prev_objects' = None
  /\ UNCHANGED <<srv_stats, srv_stats_id, srv_latest_frame, srvCtl, srvThreads,
                 srvMain, srvFiles>>
  /\ UNCHANGED <<s1Vars, auxVars>>

\* /api/reset_stats: self.stats = {... all zero ...}, a new dict
reset_stats ==
  /\ SrvAlive /\ srv_stats_id < MaxResets
  /\ srv_stats' = SrvFreshStats
  /\ srv_stats_id' = srv_stats_id + 1
  /\ UNCHANGED <<srv_annotations, srv_prev_objects, srv_latest_frame, srvCtl,
                 srvThreads, srvMain, srvFiles>>
  /\ UNCHANGED <<s1Vars, auxVars>>


\* script_1.py and server.py are two programs: a run is a run of one of them.
\* The producer loop of script_1 on every scene, or process_frame requests.
NextDetect ==
  \/ srv_requests = 0 /\ Producer(Scenes, MaxFrames)
  \/ frame_count = 0 /\ process_frame

SpecDetect == Init /\ [][NextDetect]_vars

\* The client posts its frames one after another: no two requests overlap,
\* one request thread serves them all.
process_frame_sequential ==
  \/ PfBegin("t1") \/ PfCount("t1") \/ PfDetect("t1") \/ PfCheck("t1")
  \/ PfSaved("t1") \/ PfMake("t1") \/ PfInsert("t1") \/ PfSetPrev("t1")
  \/ PfHistory("t1") \/ PfHistoryTrim("t1") \/ PfTotal("t1")

\* Sequential frames with clear_annotations and reset_stats requests between
\* or during them.
NextSrvSeq ==
  \/ process_frame_sequential
  \/ clear_annotations \/ reset_stats

\* Sequential frames and clear_annotations requests.
NextSrvClear ==
  \/ process_frame_sequential
  \/ clear_annotations

SpecSrvClear == Init /\ [][NextSrvClear]_vars

\* Sequential frames and update_settings requests.
NextSrvSettings ==
  \/ process_frame_sequential
  \/ srv_update_settings

SpecSrvSettings == Init /\ [][NextSrvSettings]_vars

SpecSrvSeq == Init /\ [][NextSrvSeq]_vars

\* ---------------------------------------------------- server.py: main thread
Keys(d) == [i \in 1..Len(d) |-> d[i].key]

\* SIGINT/SIGTERM while run sleeps: self.running = False; self.cleanup()
SrvSignal ==
  /\ srv_main = "run"
  /\ srv_running' = FALSE
  /\ srv_main' = "handler"
  /\ UNCHANGED <<srvSess, srv_pause_annotation, srv_iou_threshold,
                 srv_position_threshold, srv_settings, srv_settings_req,
                 srvThreads, srv_save, srv_final_save_calls, srvFiles>>
  /\ UNCHANGED <<s1Vars, auxVars>>

\* cleanup returns: in signal_handler sys.exit(0) follows, and SystemExit
\* unwinds run, whose finally clause calls cleanup again; then the process ends.
SrvCleanupReturns ==
  /\ srv_main' = IF srv_main = "handler" THEN "finally" ELSE "done"
  /\ srv_save' = [step |-> "begin", doc |-> <<>>]

\* cleanup: _save_to_json(final=True) is entered; with a non-empty session
\* prepare_annotations_data evaluates data['metadata']
SrvSaveBegin ==
  /\ srv_main \in {"handler", "finally"} /\ srv_save.step = "begin"
  /\ srv_final_save_calls' = srv_final_save_calls + 1
  /\ IF srv_annotations = <<>>
     THEN SrvCleanupReturns
     ELSE /\ srv_save' = [step |-> "iter",
                          doc |-> <<[total_frames |-> Len(srv_annotations),
                                     total_objects |-> srv_stats.total_objects,
                                     frames |-> <<>>]>>]
          /\ UNCHANGED srv_main
  /\ UNCHANGED <<srvSess, srvCtl, srvThreads, srvFiles>>
  /\ UNCHANGED <<s1Vars, auxVars>>

\* for frame_id, frame in self.annotations.items(): the iteration starts
SrvSaveIter ==
  /\ srv_main \in {"handler", "finally"} /\ srv_save.step = "iter"
  /\ srv_save' = [step |-> "frames",
                  doc |-> <<[srv_save.doc[1] EXCEPT !.frames = srv_annotations]>>]
  /\ UNCHANGED <<srvSess, srvCtl, srvThreads, srv_main, srv_final_save_calls,
                 srvFiles>>
  /\ UNCHANGED <<s1Vars, auxVars>>

\* the iteration ends: RuntimeError (caught, the save returns False) if the
\* dict's keys changed under it, else frames_data holds the entries
SrvSaveFrames ==
  /\ srv_main \in {"handler", "finally"} /\ srv_save.step = "frames"
  /\ IF Keys(srv_save.doc[1].frames) # Keys(srv_annotations)
     THEN SrvCleanupReturns
     ELSE /\ srv_save' = [step |-> "write",
                          doc |-> <<[srv_save.doc[1] EXCEPT !.frames = srv_annotations]>>]
          /\ UNCHANGED srv_main
  /\ UNCHANGED <<srvSess, srvCtl, srvThreads, srv_final_save_calls, srvFiles>>
  /\ UNCHANGED <<s1Vars, auxVars>>

\* The document a holder of d reads: 'statistics' is self.stats itself.
SrvDocView(d) ==
  [total_frames |-> d.total_frames, total_objects |-> d.total_objects,
   statistics |-> srv_stats, frames |-> d.frames]

\* with open(filename, 'w'): json.dump(data, f); ok: whether they succeed
SrvSaveWrite ==
  /\ srv_main \in {"handler", "finally"} /\ srv_save.step = "write"
  /\ \E ok \in BOOLEAN :
       IF ok THEN srv_output_file' = <<SrvDocView(srv_save.doc[1])>>
             ELSE UNCHANGED srv_output_file
  /\ SrvCleanupReturns
  /\ UNCHANGED <<srvSess, srvCtl, srvThreads, srv_final_save_calls,
                 srv_autosave_file>>
  /\ UNCHANGED <<s1Vars, auxVars>>

\* ------------------------------------------------------ server.py: specification
\* Concurrent process_frame requests and the shutdown of the main thread.
NextSrv ==
  \/ process_frame
  \/ SrvSignal \/ SrvSaveBegin \/ SrvSaveIter \/ SrvSaveFrames \/ SrvSaveWrite

SpecSrv == Init /\ [][NextSrv]_vars

\* Concurrent process_frame requests and the control requests.
NextSrvCtl ==
  \/ process_frame
  \/ srv_toggle_pause \/ clear_annotations \/ reset_stats

SpecSrvCtl == Init /\ [][NextSrvCtl]_vars


\* ------------------------------------------------- both programs: calculate_iou
\* Boxes as the detector reports them (x1 <= x2, y1 <= y2), zero-width and
\* zero-height ones included.
Coords == 0..MaxCoord
Boxes ==
  {b \in Coords \X Coords \X Coords \X Coords : b[1] <= b[3] /\ b[2] <= b[4]}

InitIou ==
  /\ ProgramInit
  /\ iou_call \in [box1 : Boxes, box2 : Boxes, result : {<<>>}]

\* iou = self.calculate_iou(box1, box2)
CallIou ==
  /\ iou_call.result = <<>>
  /\ iou_call' = [iou_call EXCEPT
                    !.result = <<calculate_iou(iou_call.box1, iou_call.box2)>>]
  /\ UNCHANGED <<s1Vars, srvVars, pause_calls, toggles_odd, save_reply>>

SpecIou == InitIou /\ [][CallIou]_vars

\* ------------------------------------------------------ shutdown, with fairness
\* script_1.py and server.py are two programs: in a run one of them is started
\* and the other stays as constructed.
ScriptRuns == srv_requests = 0 /\ srv_main = "run"
ServerRuns ==
  /\ frame_count = 0 /\ pc = "loop" /\ handler = "none" /\ running
  /\ \A v \in Viewers : video_feed[v] = "none"

\* The producer loop with its viewers, 'q' and the shutdown signal; or
\* sequential process_frame requests (one is enough to have a session to save)
\* and the shutdown signal of the server.
NextLive ==
  \/ ScriptRuns /\ ReadFail
  \/ ScriptRuns /\ ReadOk(MaxFrames)
  \/ ScriptRuns /\ Detect(StillScenes)
  \/ ScriptRuns /\ DetectRaises
  \/ ScriptRuns /\ Check
  \/ ScriptRuns /\ Guard
  \/ ScriptRuns /\ Insert
  \/ ScriptRuns /\ Autosave
  \/ ScriptRuns /\ SetPrev
  \/ ScriptRuns /\ History({FALSE})
  \/ ScriptRuns /\ UpdateStats
  \/ ScriptRuns /\ QueueFull
  \/ ScriptRuns /\ QueuePut
  \/ ScriptRuns /\ SetLatest
  \/ ScriptRuns /\ KeyNone
  \/ ScriptRuns /\ KeyQuit
  \/ ScriptRuns /\ Finally
  \/ ScriptRuns /\ Signal
  \/ ScriptRuns /\ HandlerCleanup
  \/ ScriptRuns /\ ViewerOpen
  \/ ScriptRuns /\ ViewerGet
  \/ ScriptRuns /\ ViewerEmpty
  \/ ScriptRuns /\ ViewerExit
  \/ ServerRuns /\ srv_requests < MaxRequestsLive /\ PfBegin("t1")
  \/ ServerRuns /\ PfCount("t1")
  \/ ServerRuns /\ PfDetect("t1")
  \/ ServerRuns /\ PfCheck("t1")
  \/ ServerRuns /\ PfSaved("t1")
  \/ ServerRuns /\ PfMake("t1")
  \/ ServerRuns /\ PfInsert("t1")
  \/ ServerRuns /\ PfSetPrev("t1")
  \/ ServerRuns /\ PfHistory("t1")
  \/ ServerRuns /\ PfHistoryTrim("t1")
  \/ ServerRuns /\ PfTotal("t1")
  \/ ServerRuns /\ SrvSignal
  \/ ServerRuns /\ SrvSaveBegin
  \/ ServerRuns /\ SrvSaveIter
  \/ ServerRuns /\ SrvSaveFrames
  \/ ServerRuns /\ SrvSaveWrite

\* The main thread goes on executing: signal_handler runs to its sys.exit and
\* the finally clause of run to its end (release and the file write return).
\* A generate() thread is scheduled: its get() returns or times out after one
\* second and the loop condition is read again.
FairLive ==
  /\ WF_vars(ScriptRuns /\ HandlerCleanup)
  /\ WF_vars(ScriptRuns /\ Finally)
  /\ \A v \in Viewers : WF_vars(ScriptRuns /\ GenerateExit(v))
  /\ WF_vars(ServerRuns /\ (SrvSaveBegin \/ SrvSaveIter \/ SrvSaveFrames
                              \/ SrvSaveWrite))

SpecLive == Init /\ [][NextLive]_vars /\ FairLive


\* ===================================================================== claims

\* C1: in script_1 the session's keys are frame_1..frame_N in insertion order,
\* the annotation under frame_k has saved_index k, and N is the number of
\* frames judged significant while not paused (the producer's saved counter;
\* between counting a frame and inserting it the session is one short).
C1_SessionDense ==
  /\ \A k \in 1..Len(annotations) :
       annotations[k].key = k /\ annotations[k].saved_index = k
  /\ Len(annotations) =
       IF pc = "insert" THEN saved_frame_count - 1 ELSE saved_frame_count

\* An autosave has written ten frames after a run in which a frame was skipped.
C1_Witness ==
  /\ pc = "key" /\ Len(annotations) = 10 /\ frame_count > 10
  /\ autosave_file # <<>> /\ Len(autosave_file[1].frames) = 10

\* C2: concurrent process_frame requests get distinct saved_index values, the
\* keys are frame_1..frame_k with saved_index k under frame_k, and a request
\* that has stored its annotation finds it still stored (none is overwritten).
C2_ConcurrentAppendsDistinct ==
  /\ \A i \in 1..Len(srv_annotations) :
       srv_annotations[i].key = i /\ srv_annotations[i].saved_index = i
  /\ \A t \in Threads : \A u \in Threads \ {t} :
       srv_fa[t] # <<>> /\ srv_fa[u] # <<>>
         => srv_fa[t][1].saved_index # srv_fa[u][1].saved_index
  /\ \A t \in Threads :
       srv_pc[t] \in {"prev", "total"} /\ srv_fa[t] # <<>>
         => \E i \in 1..Len(srv_annotations) :
              /\ srv_annotations[i].saved_index = srv_fa[t][1].saved_index
              /\ srv_annotations[i].frame_number = srv_fa[t][1].frame_number
              /\ srv_annotations[i].objects = srv_fa[t][1].objects

\* C3: stats['total_objects'] equals the number of objects over the frames of
\* the session in every state a reader can observe (both variants).
C3_TotalObjectsIsSum ==
  /\ stats.total_objects = SumObjects(annotations)
  /\ srv_stats.total_objects = SumObjects(srv_annotations)

\* Same count and labels as the baseline, and the box at some position has
\* moved its center by more than position_threshold or overlaps the previous
\* box at that position with an IoU below iou_threshold.
MovedSameShape(cur, prev) ==
  /\ prev.set /\ Len(cur) = Len(prev.objs) /\ Labels(cur) = Labels(prev.objs)
  /\ \E i \in 1..Len(cur) :
       /\ cur[i].label = prev.objs[i].label
       /\ \/ CenterMoved(cur[i], prev.objs[i], position_threshold)
          \/ IouBelow(calculate_iou(BoxOf(cur[i]), BoxOf(prev.objs[i])),
                      iou_threshold)

\* C4: a non-paused frame with the count and labels of the last saved frame
\* in which a box moved beyond the thresholds is judged significant.
C4_MovedBoxIsSignificant ==
  pc = "guard" /\ ~pause_annotation /\ MovedSameShape(current_objects, prev_objects)
    => should_save

\* C5: resuming from pause leaves the baseline prev_objects reset.
C5_ResumeResetsBaseline ==
  [][pause_annotation /\ ~pause_annotation' => ~prev_objects'.set]_vars

\* C6: the stream queue never holds more than its capacity.
C6_QueueBounded == Len(frame_queue) <= maxsize

\* The queue is full after a viewer has taken a frame and frames were dropped.
C6_Witness ==
  /\ Len(frame_queue) = maxsize /\ frame_count > maxsize + 1
  /\ \E v \in Viewers : frame_data[v] # 0

\* The n most recently published frames, oldest first.
MostRecent(n, last) == [i \in 1..n |-> last - n + i]

\* C7: the queue is in publish order, every frame a viewer got is older than
\* every queued one, and with no viewer the queue holds the most recent
\* min(capacity, published) frames in order after each publish.
C7_DropOldest ==
  /\ \A i \in 1..Len(frame_queue) : \A j \in 1..Len(frame_queue) :
       i < j => frame_queue[i] < frame_queue[j]
  /\ \A v \in Viewers :
       frame_queue # <<>> => frame_data[v] < Head(frame_queue)
  /\ (pc \in {"latest", "key", "loop"} /\ \A v \in Viewers : frame_data[v] = 0)
       => frame_queue = MostRecent(Min(maxsize, frame_count), frame_count)

\* With no viewer, more frames were published than the queue holds.
C7_Witness ==
  /\ pc = "key" /\ frame_count > maxsize /\ Len(frame_queue) = maxsize
  /\ \A v \in Viewers : frame_data[v] = 0

\* C8: on every shutdown path the final save runs exactly once.
C8_FinalSaveOnce ==
  /\ final_save_calls <= 1
  /\ pc = "done" => final_save_calls = 1

\* C9: while the final save reads the session no request is between counting
\* its frame and inserting it, and the final document holds every frame
\* counted in its saved_frames.
C9_FinalSaveAfterAppend ==
  /\ ~ /\ srv_main \in {"handler", "finally"}
       /\ srv_save.step \in {"iter", "frames"}
       /\ \E t \in Threads : srv_pc[t] \in {"mk", "insert"}
  /\ srv_output_file # <<>> =>
       \A k \in 1..srv_output_file[1].statistics.saved_frames :
         \E i \in 1..Len(srv_output_file[1].frames) :
           srv_output_file[1].frames[i].key = k

\* C10: a document returned by prepare_annotations_data counts its own frames
\* and objects, and what its holder reads in it does not change afterwards.
C10_SnapshotConsistent ==
  [][/\ ex_pc' = "doc" =>
          /\ ex_doc'[1].total_frames = Len(ex_doc'[1].frames)
          /\ ex_doc'[1].total_objects = SumObjects(ex_doc'[1].frames)
     /\ ex_pc = "doc" /\ ex_pc' = "doc" =>
          DocView(ex_doc[1])' = DocView(ex_doc[1])]_vars

\* C11: a frame whose processing reads the pause flag as set is not appended
\* and does not reach the detector's output: in script_1 an iteration that has
\* read pause_annotation as True carries no detections and does not pass the
\* save guard (no counter increment, no insert, no new prev_objects); in
\* server.py a request that reads the flag as set, at the detection test or
\* inside has_significant_changes, goes on without saving.
C11_PausedFrameNotSaved ==
  [][ /\ (pc = "detect" /\ pc' = "check" /\ pause_annotation
             => current_objects' = <<>>)
      /\ (pc = "guard" /\ pc' = "insert" => ~saw_pause)
      /\ \A t \in Threads :
           srv_pc[t] \in {"detect", "check"} /\ srv_pc'[t] # srv_pc[t]
             /\ srv_pause_annotation
           => srv_pc'[t] = "total" ]_vars

\* The baseline holds no detections: None, or the copy of an empty set.
EmptyBaseline(prev) == ~prev.set \/ prev.objs = <<>>

\* C12: while not paused, has_significant_changes returns True whenever the
\* baseline prev_objects holds no detections (never set, reset, or copied from
\* a saved frame without detections), for every current set, the empty one
\* included; in both programs, at every call the producer or a request makes.
C12_EmptyBaselineIsSignificant ==
  /\ (pc = "check" /\ ~pause_annotation /\ EmptyBaseline(prev_objects)
        => has_significant_changes(current_objects, prev_objects,
             pause_annotation, iou_threshold, position_threshold))
  /\ \A t \in Threads :
       srv_pc[t] = "check" /\ ~srv_pause_annotation
         /\ EmptyBaseline(srv_prev_objects)
       => srv_has_significant_changes(srv_cur[t], srv_prev_objects,
            srv_pause_annotation, srv_iou_threshold, srv_position_threshold)

\* Two detection sets with the same count and, position by position, the same
\* label and box (the ids, which embed the frame counter, are not compared).
SameDetections(cur, prev) ==
  /\ Len(cur) = Len(prev)
  /\ \A i \in 1..Len(cur) :
       cur[i].label = prev[i].label /\ BoxOf(cur[i]) = BoxOf(prev[i])

\* C13: while not paused and with prev_objects holding the last saved set, a
\* frame with the same count, labels and boxes as that set is judged not
\* significant (so the save guard leaves the session, the saved counter and
\* prev_objects alone); in both programs, at every call of
\* has_significant_changes.
C13_IdenticalFrameNotSignificant ==
  /\ (pc = "check" /\ ~pause_annotation /\ prev_objects.set
        /\ SameDetections(current_objects, prev_objects.objs)
        => ~has_significant_changes(current_objects, prev_objects,
              pause_annotation, iou_threshold, position_threshold))
  /\ \A t \in Threads :
       srv_pc[t] = "check" /\ ~srv_pause_annotation /\ srv_prev_objects.set
         /\ SameDetections(srv_cur[t], srv_prev_objects.objs)
       => ~srv_has_significant_changes(srv_cur[t], srv_prev_objects,
             srv_pause_annotation, srv_iou_threshold, srv_position_threshold)

\* Threshold settings the comparison is evaluated under (hundredths; pixels).
IouThresholds == {0, 30, 100}
PositionThresholds == {0, 50, 1000}

\* The counts differ, or they are equal and the sets of labels differ.
CountOrLabelsDiffer(cur, prev) ==
  \/ Len(cur) # Len(prev.objs)
  \/ Labels(cur) # Labels(prev.objs)

\* C14: while not paused and with a non-empty baseline, has_significant_changes
\* returns True whenever the number of current detections differs from the
\* number in prev_objects, and whenever the counts are equal but the label sets
\* differ, whatever the boxes and under every threshold setting; in script_1
\* the loop's should_save is then True.
C14_CountOrLabelChangeIsSignificant ==
  /\ (pc = "check" /\ ~pause_annotation
        /\ prev_objects.set /\ prev_objects.objs # <<>>
        /\ CountOrLabelsDiffer(current_objects, prev_objects)
        => \A i \in IouThresholds : \A p \in PositionThresholds :
             has_significant_changes(current_objects, prev_objects,
                                     pause_annotation, i, p))
  /\ (pc = "guard" /\ ~saw_pause
        /\ prev_objects.set /\ prev_objects.objs # <<>>
        /\ CountOrLabelsDiffer(current_objects, prev_objects)
        => should_save)
  /\ \A t \in Threads :
       srv_pc[t] = "check" /\ ~srv_pause_annotation
         /\ srv_prev_objects.set /\ srv_prev_objects.objs # <<>>
         /\ CountOrLabelsDiffer(srv_cur[t], srv_prev_objects)
       => \A i \in IouThresholds : \A p \in PositionThresholds :
            srv_has_significant_changes(srv_cur[t], srv_prev_objects,
                                        srv_pause_annotation, i, p)

\* The loop has judged a frame with as many detections as the baseline and
\* another label set.
C14_Witness ==
  /\ pc = "guard" /\ should_save /\ ~saw_pause
  /\ prev_objects.set /\ prev_objects.objs # <<>>
  /\ Len(current_objects) = Len(prev_objects.objs)
  /\ Labels(current_objects) # Labels(prev_objects.objs)

\* Every stored entry is still stored, unchanged and under its key.
AnnotationsKept ==
  /\ Len(srv_annotations') >= Len(srv_annotations)
  /\ \A i \in 1..Len(srv_annotations) : srv_annotations'[i] = srv_annotations[i]

\* C15: in server.py no step other than clear_annotations replaces, changes or
\* removes an annotation the session holds, and the number of frames held does
\* not decrease: also for the frames stored after a reset_stats.
C15_StoredAnnotationsKept == [][clear_annotations \/ AnnotationsKept]_vars

\* C16: in server.py the session's keys are frame_1..frame_k, k the number of
\* frames held, and the stored saved_index values are 1..k: in every state,
\* also after clear_annotations and the frames stored after it.
C16_SrvSessionDense ==
  /\ {srv_annotations[i].key : i \in 1..Len(srv_annotations)}
       = 1..Len(srv_annotations)
  /\ {srv_annotations[i].saved_index : i \in 1..Len(srv_annotations)}
       = 1..Len(srv_annotations)

\* C17: in insertion order the frame_number of the stored annotations is
\* strictly increasing, and the processed-frame counter (frame_count in
\* script_1.py, stats['total_frames'] in server.py) never decreases, whatever
\* the step: a skipped or paused frame, reset_stats, a concurrent request.
FrameNumbersIncrease(a) ==
  \A i, j \in 1..Len(a) : i < j => a[i].frame_number < a[j].frame_number

C17_FrameNumbersMonotonic ==
  [][ /\ FrameNumbersIncrease(annotations')
      /\ FrameNumbersIncrease(srv_annotations')
      /\ frame_count' >= frame_count
      /\ srv_stats'.total_frames >= srv_stats.total_frames ]_vars

\* C18: the producer never waits for frame_lock while a reader holds it across
\* file I/O: no state has the main thread at the latest_frame update with the
\* lock held by a take_snapshot request that is writing an image file (a
\* reader may hold the lock for its in-memory copy only).
C18_ProducerNeverWaitsOnFileWrite ==
  ~(/\ pc = "latest"
    /\ frame_lock = "take_snapshot"
    /\ snap_pc \in {"imwrite", "annotated"})

\* C19: in script_1.py put_nowait never finds the queue full, whatever the
\* /video consumers take in between, so every iteration that publishes leaves
\* latest_frame equal to its own display frame.
C19_LatestFrameIsCurrent ==
  /\ pc = "put" => ~full(frame_queue)
  /\ pc = "key" => latest_frame = frame_count

C19_Witness ==
  /\ pc = "key" /\ frame_count > maxsize
  /\ Len(frame_queue) = maxsize
  /\ latest_frame = frame_count
  /\ \E v \in Viewers : frame_data[v] # 0

\* C20: once shutdown has begun (running is False and the final save has run)
\* nothing changes the session, the stats or prev_objects: in server.py no
\* request does, and in script_1.py the producer appends no further frame.
SrvShutdownBegun == ~srv_running /\ srv_main \in {"finally", "done"}
ShutdownBegun == ~running /\ final_save_calls >= 1

C20_NoMutationAfterShutdown ==
  [][ /\ SrvShutdownBegun =>
           /\ srv_annotations' = srv_annotations
           /\ srv_prev_objects' = srv_prev_objects
           /\ srv_stats' = srv_stats
      /\ ShutdownBegun => annotations' = annotations ]_vars

\* C21: a save whose write fails is not fatal: the producer goes on to the
\* next step of its iteration, running, the session, the stats and
\* prev_objects are as before, and whenever a save does write a file, the
\* file holds all frames of the session (a save of the producer thread) or at
\* least the frames the session held when the save began (a save_session
\* request, and server.py's main thread, which run while frames are appended).
SaveLeavesState ==
  /\ annotations' = annotations /\ stats' = stats
  /\ prev_objects' = prev_objects /\ running' = running

C21_FailedSaveNotFatal ==
  [][ /\ (pc = "autosave" /\ pc' # pc /\ handler' = "none")
           => pc' = "setprev" /\ SaveLeavesState
      /\ (pc = "key" /\ pc' = "loop" /\ ctlVars' = ctlVars /\ camVars' = camVars)
           => SaveLeavesState
      /\ autosave_file' # autosave_file
           => IF ex_pc' = ex_pc
              THEN autosave_file'[1].frames = annotations'
              ELSE Len(autosave_file'[1].frames) >= ex_doc[1].total_frames
      /\ output_file' # output_file
           => output_file'[1].frames = annotations'
      /\ srv_save' # srv_save
           => /\ srv_annotations' = srv_annotations /\ srv_stats' = srv_stats
              /\ srv_prev_objects' = srv_prev_objects
      /\ srv_output_file' # srv_output_file
           => Len(srv_output_file'[1].frames) >= srv_save.doc[1].total_frames ]_vars

\* The autosave at the tenth frame failed, the loop ran on, and the final save
\* wrote every frame.
C21_Witness ==
  /\ pc = "done" /\ autosave_file = <<>>
  /\ Len(annotations) >= autosave_every
  /\ output_file # <<>> /\ output_file[1].frames = annotations

\* C22: in script_1.py the append path writes the autosave file only when
\* the append made saved_frame_count a positive multiple of 10, then a write
\* is possible, and the document written ends with the frame just appended;
\* a non-final save (autosave, 's' key, save_session) never writes the primary
\* output file and only a final save (cleanup) does, in server.py too.
AutosaveDue ==
  pc = "autosave" /\ handler = "none"
  /\ saved_frame_count > 0 /\ saved_frame_count % autosave_every = 0

C22_AutosaveCadence ==
  [][ /\ (pc = "autosave" /\ pc' = "setprev" /\ autosave_file' # autosave_file)
           => /\ AutosaveDue
              /\ Len(autosave_file'[1].frames) = saved_frame_count
              /\ autosave_file'[1].frames[saved_frame_count].saved_index
                   = saved_frame_count
      /\ AutosaveDue
           => ENABLED (Autosave /\ autosave_file' = <<prepare_annotations_data>>)
      /\ autosave_file' # autosave_file
           => output_file' = output_file /\ final_save_calls' = final_save_calls
      /\ output_file' # output_file
           => /\ final_save_calls' = final_save_calls + 1
              /\ autosave_file' = autosave_file
      /\ srv_output_file' # srv_output_file
           => /\ srv_main \in {"handler", "finally"}
              /\ srv_autosave_file' = srv_autosave_file ]_vars

\* The autosave of the tenth frame has just been written.
C22_Witness ==
  /\ pc = "setprev" /\ saved_frame_count = autosave_every
  /\ autosave_file # <<>> /\ Len(autosave_file[1].frames) = autosave_every
  /\ output_file = <<>>

\* C23: in server.py a step that removes a stored frame or resets the
\* baseline (clear_annotations) leaves the session empty and the baseline
\* None and changes neither the pause flag nor the thresholds; and a
\* non-paused frame evaluated while the session is empty (the first frame
\* after clear_annotations) is judged significant whatever its detections.
C23_ClearResetsBaseline ==
  [][ /\ (Len(srv_annotations') < Len(srv_annotations)
           \/ (srv_prev_objects.set /\ ~srv_prev_objects'.set))
         => /\ srv_annotations' = <<>> /\ srv_prev_objects' = None
            /\ srvCtl' = srvCtl
      /\ \A t \in Threads :
           (srv_pc[t] = "check" /\ ~srv_pause_annotation /\ srv_annotations = <<>>)
           => srv_has_significant_changes(srv_cur[t], srv_prev_objects,
                srv_pause_annotation, srv_iou_threshold, srv_position_threshold)
    ]_vars

\* C24: in script_1.py, when the first frame read after a successful
\* switch_camera is evaluated, the baseline prev_objects is None, so that the
\* frame is judged significant unless the iteration saw the pause flag set.
C24_SwitchResetsBaseline ==
  /\ (pc = "check" /\ new_source = "frame") => ~prev_objects.set
  /\ (pc = "guard" /\ new_source = "frame" /\ ~saw_pause) => should_save

\* C25: update_settings treats its fields one by one: a threshold that is
\* present and valid (an IoU threshold in [0, 1], a position threshold >= 0)
\* is applied, one that is out of range or not a number is rejected with the
\* prior value kept, whatever the other fields are, and the answer reports a
\* failure exactly when some field was rejected.
IouValid(f) == f.kind = "number" /\ f.val >= 0 /\ f.val <= 100
MotionValid(f) == f.kind = "number" /\ f.val >= 0
Rejected(r) ==
  \/ r.iou.kind # "absent" /\ ~IouValid(r.iou)
  \/ r.motion.kind # "absent" /\ ~MotionValid(r.motion)

C25_SettingsValidatedFieldByField ==
  [][ /\ (srv_settings_req' # srv_settings_req
           \/ srv_iou_threshold' # srv_iou_threshold
           \/ srv_position_threshold' # srv_position_threshold)
         => /\ srv_iou_threshold' =
                 IF IouValid(srv_settings_req'.iou)
                 THEN srv_settings_req'.iou.val ELSE srv_iou_threshold
            /\ srv_position_threshold' =
                 IF MotionValid(srv_settings_req'.motion)
                 THEN srv_settings_req'.motion.val ELSE srv_position_threshold
            /\ (srv_settings_req'.reply = "error") = Rejected(srv_settings_req')
      /\ (settings_req' # settings_req \/ iou_threshold' # iou_threshold)
         => /\ iou_threshold' =
                 IF IouValid(settings_req'.iou)
                 THEN settings_req'.iou.val ELSE iou_threshold
            /\ (settings_req'.reply = "error") = Rejected(settings_req')
    ]_vars

\* C26: once update_settings has set the confidence cutoff to c, every frame
\* ingested afterwards holds no detection whose confidence is below c: in
\* server.py c is self.settings['confidence'], in script_1.py the confidence
\* of the last request that was answered with success.
AtLeast(objs, c) == \A i \in 1..Len(objs) : objs[i].confidence >= c

C26_IngestUsesSettingsConfidence ==
  [][ /\ (pc = "detect" /\ pc' = "check"
           /\ settings_req.reply = "ok" /\ settings_req.confidence.kind = "number")
         => AtLeast(current_objects', settings_req.confidence.val)
      /\ \A t \in Threads :
           (srv_pc[t] = "detect" /\ srv_pc'[t] = "check")
           => AtLeast(srv_cur'[t], srv_settings.confidence) ]_vars

\* C27: get_recent_detections(n) is the n newest detections of the frames it
\* considers (all of them if there are fewer), the newest saved frame's
\* detections first.
RECURSIVE Reverse(_)
Reverse(q) == IF q = <<>> THEN <<>> ELSE Reverse(Tail(q)) \o <<Head(q)>>

NewestFirst(session, count) ==
  LET frames == SubSeq(session, Max(1, Len(session) - recent_frames + 1),
                       Len(session))
      all == Detections(Reverse(frames))
  IN SubSeq(all, 1, Min(count, Len(all)))

RecentCounts == {1, 2, 10}

C27_RecentDetectionsNewestFirst ==
  \A n \in RecentCounts :
    /\ get_recent_detections(annotations, n) = NewestFirst(annotations, n)
    /\ get_recent_detections(srv_annotations, n) = NewestFirst(srv_annotations, n)

\* C28: stats['detection_history'] holds at most 100 samples in every state
\* (any state can be read by a stats, export or save request), also in the
\* documents written, and a change of the history keeps the newest samples in
\* their order: the new history is a tail of the old one, or such a tail
\* followed by the new sample, and nothing is dropped below the capacity.
IsTail(a, b) == Len(a) <= Len(b) /\ a = SubSeq(b, Len(b) - Len(a) + 1, Len(b))

KeepsNewest(h, h2) ==
  /\ \/ IsTail(h2, h)
     \/ h2 # <<>> /\ IsTail(SubSeq(h2, 1, Len(h2) - 1), h)
  /\ Len(h2) >= Min(Len(h), history_cap)

C28_HistoryCapped ==
  [][ /\ Len(stats'.detection_history) <= history_cap
      /\ autosave_file' # <<>>
           => Len(autosave_file'[1].statistics.detection_history) <= history_cap
      /\ stats'.detection_history # stats.detection_history
           => KeepsNewest(stats.detection_history, stats'.detection_history)
    ]_vars

\* C30: in server.py a process_frame request that ends at the decoding of its
\* image (imdecode returns None, or base64 decoding raises) is answered with
\* success false and leaves total_frames, saved_frames, total_objects,
\* object_counts, detection_history, the session, prev_objects and
\* latest_frame as they were.
C30_FailedDecodeLeavesState ==
  [][ (srv_requests' = srv_requests + 1 /\ srv_pc' = srv_pc)
        => /\ \E t \in Threads :
                /\ srv_reply'[t] = "false"
                /\ \A u \in Threads \ {t} : srv_reply'[u] = srv_reply[u]
           /\ srv_stats' = srv_stats
           /\ srv_annotations' = srv_annotations
           /\ srv_prev_objects' = srv_prev_objects
           /\ srv_latest_frame' = srv_latest_frame
    ]_vars

\* A frame has been counted, kept as latest_frame, stored and sampled; the
\* next request fails to decode.
C30_Witness ==
  /\ srv_requests = 2 /\ srv_reply["t1"] = "false"
  /\ srv_stats.total_frames = 1 /\ srv_stats.saved_frames = 1
  /\ srv_stats.total_objects = 1 /\ srv_stats.object_counts["person"] = 1
  /\ Len(srv_stats.detection_history) = 1
  /\ Len(srv_annotations) = 1 /\ srv_prev_objects.set
  /\ srv_latest_frame = 1

\* C29: once running is False (shutdown signal, 'q' or ESC) the producer loop
\* of script_1 ends and cleanup has run (capture released, final save
\* attempted), every /video generator that is streaming ends (with its loop
\* or with the process), and in server.py run ends after its final save was
\* attempted.
C29_ShutdownTerminates ==
  /\ (~running) ~> (pc = "done" /\ ~cap_opened /\ final_save_calls >= 1)
  /\ \A v \in Viewers :
       (~running /\ video_feed[v] = "streaming")
         ~> (video_feed[v] = "ended" \/ pc = "done")
  /\ (~srv_running) ~> (srv_main = "done" /\ srv_final_save_calls >= 1)

\* The signal arrived in the loop after a frame was stored: both cleanups have
\* run, run has ended, and a viewer's generator has left its loop before.
C29_Witness ==
  /\ ~running /\ pc = "done" /\ handler = "exited"
  /\ ~cap_opened /\ final_save_calls = 2 /\ output_file # <<>>
  /\ video_feed["v1"] = "ended" /\ video_feed["v2"] = "streaming"

\* C31: in script_1 an iteration whose read fails leaves frame_count,
\* saved_frame_count, stats, the session, prev_objects, the queue and
\* latest_frame as they were and goes back to the head of the loop; however
\* many reads have failed in a row, the loop is still running.
C31_FailedReadChangesNothing ==
  [][ /\ failed_reads' = failed_reads + 1
        => /\ pc' = "loop" /\ running'
           /\ frame_count' = frame_count
           /\ saved_frame_count' = saved_frame_count
           /\ sessVars' = sessVars
           /\ frame_queue' = frame_queue /\ latest_frame' = latest_frame
      /\ (failed_reads' > 0 /\ handler' = "none") => (pc' = "loop" /\ running')
    ]_vars

\* Frames have been stored and published, and since then the read has failed
\* as often as the bound allows.
C31_Witness ==
  /\ failed_reads = MaxFailedReads /\ pc = "loop" /\ running
  /\ frame_count >= 2 /\ annotations # <<>> /\ latest_frame # 0

\* C32: calculate_iou is symmetric: for every two boxes over the coordinate
\* range, degenerate and non-overlapping ones included, the call with the
\* arguments exchanged returns the same value.
C32_IouSymmetric ==
  iou_call.result # <<>>
    => iou_call.result[1] = calculate_iou(iou_call.box2, iou_call.box1)

\* Two different boxes of different areas that overlap.
C32_Witness ==
  /\ iou_call.result # <<>>
  /\ iou_call.box1 = <<0, 0, 2, 2>> /\ iou_call.box2 = <<1, 1, 2, 3>>
  /\ iou_call.result[1][1] > 0

\* The quotient of the area of the intersection and the area of the union,
\* as <<numerator, denominator>>; 0 when the union is empty.
ReferenceIou(a, b) ==
  LET w == Max(0, Min(a[3], b[3]) - Max(a[1], b[1]))
      h == Max(0, Min(a[4], b[4]) - Max(a[2], b[2]))
      inter == w * h
      union == (a[3] - a[1]) * (a[4] - a[2]) + (b[3] - b[1]) * (b[4] - b[2]) - inter
  IN IF union = 0 THEN <<0, 1>> ELSE <<inter, union>>

NonDegenerate(b) == b[1] < b[3] /\ b[2] < b[4]

\* No open interior in common: apart, or touching along an edge or corner.
NoOverlap(a, b) ==
  \/ Min(a[3], b[3]) <= Max(a[1], b[1])
  \/ Min(a[4], b[4]) <= Max(a[2], b[2])

\* C33: for all boxes over the coordinate range calculate_iou is the
\* reference intersection over union, its divisor is never zero, the IoU of
\* a non-degenerate box with itself is 1, the IoU of boxes that do not
\* overlap is 0, every result lies in [0, 1], and A = (0,0,10,10),
\* B = (5,5,15,15) gives 25/175.
C33_IouIsIntersectionOverUnion ==
  /\ calculate_iou(<<0, 0, 10, 10>>, <<5, 5, 15, 15>>) = <<25, 175>>
  /\ iou_call.result # <<>> =>
       LET a == iou_call.box1
           b == iou_call.box2
           n == iou_call.result[1][1]
           d == iou_call.result[1][2]
           ref == ReferenceIou(a, b)
       IN /\ d > 0
          /\ n * ref[2] = ref[1] * d
          /\ 0 <= n /\ n <= d
          /\ (a = b /\ NonDegenerate(a)) => n = d
          /\ NoOverlap(a, b) => n = 0

\* A box compared with itself, and so with the whole of its own area.
C33_Witness ==
  /\ iou_call.result # <<>>
  /\ iou_call.box1 = <<1, 0, 3, 2>> /\ iou_call.box2 = iou_call.box1
  /\ iou_call.result[1] = <<4, 4>>

IdsOf(objs) == {objs[i].id : i \in 1..Len(objs)}

\* C34: object ids embed the frame counter, so while that counter is not
\* reset (never in script_1; in server.py without reset_stats) no id of the
\* current detections is a key of prev_objects, and has_significant_changes
\* returns False for every non-paused frame with the count and label set of
\* a non-None prev_objects, whatever the boxes and the thresholds.
C34_IdsNeverMatchBaseline ==
  /\ (pc = "check" /\ prev_objects.set)
       => IdsOf(current_objects) \cap IdsOf(prev_objects.objs) = {}
  /\ (pc = "check" /\ ~pause_annotation /\ prev_objects.set
        /\ ~CountOrLabelsDiffer(current_objects, prev_objects))
       => \A i \in IouThresholds : \A p \in PositionThresholds :
            ~has_significant_changes(current_objects, prev_objects,
                                     pause_annotation, i, p)
  /\ \A t \in Threads :
       (srv_stats_id = 0 /\ srv_pc[t] = "check" /\ srv_prev_objects.set)
         => IdsOf(srv_cur[t]) \cap IdsOf(srv_prev_objects.objs) = {}
  /\ \A t \in Threads :
       (srv_stats_id = 0 /\ srv_pc[t] = "check" /\ ~srv_pause_annotation
          /\ srv_prev_objects.set
          /\ ~CountOrLabelsDiffer(srv_cur[t], srv_prev_objects))
         => \A i \in IouThresholds : \A p \in PositionThresholds :
              ~srv_has_significant_changes(srv_cur[t], srv_prev_objects,
                                           srv_pause_annotation, i, p)

\* The objects of the entry appended last (the last one in insertion order).
LastObjects(session) == session[Len(session)].objects

\* C35: whenever prev_objects is not None and no append is in progress
\* (the session entry is stored and prev_objects not yet assigned; in
\* script_1 the main thread has not been interrupted by the shutdown
\* signal), prev_objects equals the objects of the frame appended last; in
\* server.py also after concurrent requests have completed in any order.
C35_BaselineIsLastAppended ==
  /\ (prev_objects.set /\ handler = "none" /\ pc \notin {"autosave", "setprev"})
       => /\ annotations # <<>>
          /\ prev_objects.objs = LastObjects(annotations)
  /\ (srv_prev_objects.set /\ \A t \in Threads : srv_pc[t] # "prev")
       => /\ srv_annotations # <<>>
          /\ srv_prev_objects.objs = LastObjects(srv_annotations)

\* C36: pause toggles are atomic: whenever no toggle_pause request is between
\* its read and its store, the pause flag is True iff an odd number of
\* toggles (requests and space keys) have completed, and every response
\* reports the value its own toggle stored.
C36_TogglesAtomic ==
  /\ (\A c \in Callers : pause_calls[c].pc # "read")
       => pause_annotation = toggles_odd
  /\ \A c \in Callers :
       pause_calls[c].pc = "replied" => pause_calls[c].reply = pause_calls[c].val

\* C37: in script_1 the producer discards a queued frame only when the queue
\* is at capacity at the moment of the discard; a frame a viewer takes
\* between the producer's full() and its get_nowait() costs no further frame.
C37_DiscardOnlyAtCapacity ==
  [][ (pc = "get" /\ pc' = "put" /\ frame_queue' # frame_queue)
        => Len(frame_queue) = maxsize ]_vars

InQueue(f) == \E i \in 1..Len(frame_queue) : frame_queue[i] = f

\* C38: in script_1 a frame put into the stream queue is delivered to at most
\* one /video viewer: a frame handed to a viewer is newer than every frame
\* handed to any viewer before and is no longer in the queue, so no other
\* viewer can receive it.
C38_FrameDeliveredOnce ==
  [][ \A v \in Viewers :
        frame_data'[v] # frame_data[v]
          => /\ \A u \in Viewers : frame_data'[v] > frame_data[u]
             /\ \A i \in 1..Len(frame_queue') : frame_queue'[i] # frame_data'[v]
    ]_vars

\* Two viewers stream: the first frame went to one of them and the second to
\* the other, which never receives the first.
C38_Witness ==
  /\ frame_data["v1"] = 1 /\ frame_data["v2"] = 2
  /\ video_feed["v1"] = "streaming" /\ video_feed["v2"] = "streaming"
  /\ ~InQueue(1) /\ ~InQueue(2)

C40_FailedSwitchKeepsCapture ==
  [][ /\ (current_camera_index' # current_camera_index \/ cap_opened' # cap_opened)
           => \/ final_save_calls' # final_save_calls
              \/ pc = "key" /\ pc' = "loop" /\ new_source' = "switched"
              \/ sw_pc = "idle" /\ sw_pc' = "opened"
      /\ (pc = "key" /\ pc' = "loop" /\ new_source' # "switched")
           => prev_objects' = prev_objects
    ]_vars
====
